---- MODULE Spec2Model ----
(***************************************************************************)
(* A model of conda-docker: the in-memory Image/Layer objects, the v1      *)
(* image-tar codec, the registry client, the package fetcher, the         *)
(* layering engine, chroot_install with its catalog files, the repodata    *)
(* fetch and the build command that ties them together.                    *)
(*                                                                         *)
(* Representation.                                                         *)
(*   - a file name is the sequence of its dot-separated segments           *)
(*     ("libz.a" is <<"libz","a">>), so that str.endswith on an extension  *)
(*     is computed, not assumed;                                           *)
(*   - a path is the sequence of its file names, without leading "/"       *)
(*     (tarfile strips leading slashes from archive names);                *)
(*   - a tar archive is the sequence of its members;                       *)
(*   - a JSON object is a function from its keys;                          *)
(*   - Python's None is "None" in a string field, NoneSize in the size     *)
(*     field and NullConfig in the config field.                           *)
(***************************************************************************)
EXTENDS Integers, Sequences, FiniteSets, TLC

VARIABLES
    image,      \* the Image object: [name, tag, layers], layers head first
    clock,      \* number of layers minted so far (drives token_hex and now())
    pc,         \* phase of the image: "pulling", "building", "written", "parsed", "failed"
    outfile,    \* the output file: [exists, entries], the tar write_v1 wrote
    exc,        \* the exception raised by the last write, "None" when none
    parsed,     \* the result of parse_v1 on outfile
    op,         \* the operation that made the last step
    manifest,   \* the registry's manifest for the base image
    pull,       \* pull_image's locals: [step, token, i, layers]
    requests,   \* the HTTP requests sent to the registry, in order
    cache,      \* the download directory: [tarballs: fn -> bytes, infos: dist dirs with a record]
    server,     \* the package server: url -> [status, clen, body]
    fetch,      \* fetch_precs: [precs, i, records, status, exc, gets]
    stage,      \* the staging tree after chroot_install: [n, kind, base, walk, fs]
    lay,        \* add_conda_package_layers: [i, counter, files_in_layers, status]
    env,        \* _precs_from_environment: [pkgs, listing, explicit, precs, status]
    run,        \* handle_conda_build: the arguments, the phase, the staging directory
    inst,       \* chroot_install: [records, remap, step, root, bin, pkgs, env_txt, urls, exc]
    repo        \* the repodata fetch: [url, status, allow, step, raw, result, exc]

imgVars == <<image, clock, pc, outfile, exc, parsed, op>>

regVars == <<manifest, pull, requests>>

fetchVars == <<cache, server, fetch>>

layVars == <<stage, lay>>

cliVars == <<env, run>>
toolVars == <<inst, repo>>

vars == <<imgVars, regVars, fetchVars, layVars, cliVars, toolVars>>

----------------------------------------------------------------------------
(* Bounds *)

MaxAppends == 3

MaxManifest == 2

MaxPrecs == 2

\* record lists of 0..SmallRecords records, and of LayerCap - 1 .. LayerCap + OverCap
SmallRecords == 3

OverCap == 5

\* an environment lists up to MaxEnv packages
MaxEnv == 3

----------------------------------------------------------------------------
(* Program constants *)

\* the per-package layer cap of add_conda_package_layers
LayerCap == 100

----------------------------------------------------------------------------
(* Python values *)

None == "None"

NoneSize == 0 - 1

NullConfig == [t |-> "null", kv |-> {}]

Obj(kv) == [t |-> "obj", kv |-> kv]

\* bool(config) is False for None and for the empty dict
Falsy(config) == config.t = "null" \/ config.kv = {}

DefaultConfig ==
    Obj({ <<"Hostname", "">>, <<"Domainname", "">>, <<"User", "root">>,
          <<"AttachStdin", "false">>, <<"AttachStdout", "false">>,
          <<"AttachStderr", "false">>, <<"Tty", "false">>,
          <<"OpenStdin", "false">>, <<"StdinOnce", "false">>,
          <<"Env", "PATH=/usr/local/sbin:/usr/local/bin:/usr/sbin:/usr/bin:/sbin:/bin">>,
          <<"Cmd", "/bin/bash">>, <<"ArgsEscaped", "true">>,
          <<"Image", "todo-implement">>, <<"Volumes", "null">>,
          <<"WorkingDir", "">>, <<"Entrypoint", "/bin/sh -c">>,
          <<"OnBuild", "null">>, <<"Labels", "CONDA_DOCKER=VERSION">> })

Layer(id, parent, architecture, os, created, author, checksum, size, content, config) ==
    [ id |-> id, parent |-> parent, architecture |-> architecture, os |-> os,
      created |-> created, author |-> author, checksum |-> checksum,
      size |-> size, content |-> content,
      config |-> IF Falsy(config) THEN DefaultConfig ELSE config ]

\* secrets.token_hex(32): a fresh identifier on every call
TokenHexes ==
    <<
       "r1", "r2", "r3", "r4", "r5", "r6", "r7", "r8", "r9", "r10", "r11",
       "r12", "r13", "r14", "r15", "r16", "r17", "r18", "r19", "r20", "r21",
       "r22", "r23", "r24", "r25", "r26", "r27", "r28", "r29", "r30", "r31",
       "r32", "r33", "r34", "r35", "r36", "r37", "r38", "r39", "r40", "r41",
       "r42", "r43", "r44", "r45", "r46", "r47", "r48", "r49", "r50", "r51",
       "r52", "r53", "r54", "r55", "r56", "r57", "r58", "r59", "r60", "r61",
       "r62", "r63", "r64", "r65", "r66", "r67", "r68", "r69", "r70", "r71",
       "r72", "r73", "r74", "r75", "r76", "r77", "r78", "r79", "r80", "r81",
       "r82", "r83", "r84", "r85", "r86", "r87", "r88", "r89", "r90", "r91",
       "r92", "r93", "r94", "r95", "r96", "r97", "r98", "r99", "r100",
       "r101", "r102", "r103", "r104", "r105", "r106", "r107", "r108",
       "r109", "r110", "r111", "r112", "r113", "r114", "r115", "r116",
       "r117", "r118", "r119", "r120"
    >>

TokenHex(k) == TokenHexes[k]

\* datetime.now(timezone.utc).astimezone().isoformat()
Nows ==
    <<
       "t1", "t2", "t3", "t4", "t5", "t6", "t7", "t8", "t9", "t10", "t11",
       "t12", "t13", "t14", "t15", "t16", "t17", "t18", "t19", "t20", "t21",
       "t22", "t23", "t24", "t25", "t26", "t27", "t28", "t29", "t30", "t31",
       "t32", "t33", "t34", "t35", "t36", "t37", "t38", "t39", "t40", "t41",
       "t42", "t43", "t44", "t45", "t46", "t47", "t48", "t49", "t50", "t51",
       "t52", "t53", "t54", "t55", "t56", "t57", "t58", "t59", "t60", "t61",
       "t62", "t63", "t64", "t65", "t66", "t67", "t68", "t69", "t70", "t71",
       "t72", "t73", "t74", "t75", "t76", "t77", "t78", "t79", "t80", "t81",
       "t82", "t83", "t84", "t85", "t86", "t87", "t88", "t89", "t90", "t91",
       "t92", "t93", "t94", "t95", "t96", "t97", "t98", "t99", "t100",
       "t101", "t102", "t103", "t104", "t105", "t106", "t107", "t108",
       "t109", "t110", "t111", "t112", "t113", "t114", "t115", "t116",
       "t117", "t118", "t119", "t120"
    >>

Now(k) == Nows[k]

----------------------------------------------------------------------------
(* File names and paths *)

EndsWith(name, ext) ==
    /\ Len(name) > Len(ext)
    /\ SubSeq(name, Len(name) - Len(ext) + 1, Len(name)) = ext

Join(path, name) == Append(path, name)

----------------------------------------------------------------------------
(* The host file system the tar writers read (docker/tar.py). *)

HostFS ==
    ( <<<<"d">>>>                  :> [type |-> "dir",  data |-> <<>>] ) @@
    ( <<<<"d">>, <<"f">>>>         :> [type |-> "file", data |-> <<1, 2>>] ) @@
    ( <<<<"d">>, <<"libz", "a">>>> :> [type |-> "file", data |-> <<3>>] ) @@
    ( <<<<"g">>>>                  :> [type |-> "file", data |-> <<4>>] )

\* sorted(os.listdir(path))
ListDir(path) ==
    IF path = <<<<"d">>>> THEN << <<"f">>, <<"libz", "a">> >> ELSE <<>>

\* conda_file_filter()'s _tar_filter drops static libraries and js maps
CondaFileFilter(name) ==
    \/ EndsWith(name[Len(name)], <<"a">>)
    \/ EndsWith(name[Len(name)], <<"js", "map">>)

\* whether the filter returns None for the entry (filter "none": no filter given)
Filtered(filter, info) ==
    IF filter = "conda" /\ Len(info.name) > 0 THEN CondaFileFilter(info.name) ELSE FALSE

TarInfo(arcname, type, data) == [name |-> arcname, type |-> type, data |-> data]

\* _add_file(tar, filename, content, filter)
AddFile(tar, filename, content, filter) ==
    IF Filtered(filter, TarInfo(filename, "file", content)) THEN tar
    ELSE Append(tar, TarInfo(filename, "file", content))

\* TarFile.add(path, arcname, recursive, filter) reading the file system fs;
\* a directory's children are added in sorted order when recursive
RECURSIVE TarAddChildren(_, _, _, _, _, _, _)
TarAdd(fs, tar, path, arcname, recursive, filter) ==
    LET info == TarInfo(arcname, fs[path].type, fs[path].data) IN
    IF Filtered(filter, info) THEN tar
    ELSE IF info.type = "dir" /\ recursive
         THEN TarAddChildren(fs, Append(tar, info), path, arcname, ListDir(path), 1, filter)
         ELSE Append(tar, info)

\* the children of a directory of HostFS are files
TarAddChildren(fs, tar, path, arcname, names, i, filter) ==
    IF i > Len(names) THEN tar
    ELSE LET child == TarInfo(Join(arcname, names[i]),
                              fs[Join(path, names[i])].type,
                              fs[Join(path, names[i])].data)
         IN TarAddChildren(fs, IF Filtered(filter, child) THEN tar ELSE Append(tar, child),
                           path, arcname, names, i + 1, filter)

RECURSIVE WriteTarFromContentsFrom(_, _, _, _)
WriteTarFromContentsFrom(tar, contents, i, filter) ==
    IF i > Len(contents) THEN tar
    ELSE WriteTarFromContentsFrom(AddFile(tar, contents[i][1], contents[i][2], filter),
                                  contents, i + 1, filter)

\* write_tar_from_contents(contents, filter): contents in dict order
WriteTarFromContents(contents, filter) ==
    WriteTarFromContentsFrom(<<>>, contents, 1, filter)

RECURSIVE WriteTarFromPathsFrom(_, _, _, _, _)
WriteTarFromPathsFrom(fs, tar, paths, i, filter) ==
    IF i > Len(paths) THEN tar
    ELSE WriteTarFromPathsFrom(fs, TarAdd(fs, tar, paths[i][1], paths[i][2], FALSE, filter),
                               paths, i + 1, filter)

\* write_tar_from_paths(paths, filter): paths in dict order, <<host, arc>> pairs
WriteTarFromPaths(fs, paths, filter) == WriteTarFromPathsFrom(fs, <<>>, paths, 1, filter)

\* write_tar_from_path(path, arcpath, recursive, filter); arcpath <<>> is None
WriteTarFromPath(fs, path, arcpath, recursive, filter) ==
    TarAdd(fs, <<>>, path, IF arcpath = <<>> THEN path ELSE arcpath, recursive, filter)

RECURSIVE TarBlocks(_, _)
TarBlocks(tar, i) ==
    IF i > Len(tar) THEN 0
    ELSE 1 + ((Len(tar[i].data) + 511) \div 512) + TarBlocks(tar, i + 1)

\* len(digest): 512-byte header and padded data per member, two closing
\* blocks, the whole padded to a 10240-byte record
TarLen(tar) == (((TarBlocks(tar, 1) + 2) * 512 + 10239) \div 10240) * 10240

----------------------------------------------------------------------------
(* docker/base.py: Image *)

EmptyImage(name, tag) == [name |-> name, tag |-> tag, layers |-> <<>>]

\* a mutant of _add_layer that never records the parent
AddLayer_NoParent(layers, digest, base_id, k) ==
    <<Layer(IF base_id = None THEN TokenHex(k) ELSE base_id, None, "amd64", "linux",
            Now(k), "conda-docker", None, TarLen(digest), digest, NullConfig)>> \o layers

\* a mutant of _add_layer that appends at the tail of the list
AddLayer_AtTail(layers, digest, base_id, k) ==
    layers \o
    <<Layer(IF base_id = None THEN TokenHex(k) ELSE base_id,
            IF Len(layers) = 0 THEN None ELSE layers[1].id, "amd64", "linux",
            Now(k), "conda-docker", None, TarLen(digest), digest, NullConfig)>>

\* Image._add_layer(digest, base_id) at the k-th minting
AddLayer(layers, digest, base_id, k) ==
    LET parent_id == IF Len(layers) = 0 THEN None ELSE layers[1].id
        layer_id  == IF base_id = None THEN TokenHex(k) ELSE base_id
        layer     == Layer(layer_id, parent_id, "amd64", "linux", Now(k),
                           "conda-docker", None, TarLen(digest), digest, NullConfig)
    IN <<layer>> \o layers

\* Image.remove_layer(): self.layers.pop(0)
RemoveLayer(layers) == Tail(layers)

----------------------------------------------------------------------------
(* docker/tar.py: the v1 image format *)

\* the output file: absent, or a tar with its entries
NoFile == [exists |-> FALSE, entries |-> <<>>]

TarFile(entries) == [exists |-> TRUE, entries |-> entries]

Entry(dir, file, data) == [name |-> <<dir, file>>, data |-> data]

\* a mutant of write_v1_repositories that names the bottom layer
WriteV1Repositories_Bottom(img) ==
    (img.name :> (img.tag :> img.layers[Len(img.layers)].id))

\* write_v1_repositories(image): {name: {tag: layers[0].id}}
WriteV1Repositories(img) ==
    (img.name :> (img.tag :> img.layers[1].id))

MetadataKeys ==
    {"created", "author", "id", "parent", "architecture", "os", "size", "checksum"}

IsNone(k, v) == IF k = "size" THEN v = NoneSize ELSE v = None

\* write_v1_layer_metadata(layer): the keys that are not None, and the config twice
WriteV1LayerMetadata(layer) ==
    LET present == {k \in MetadataKeys : ~IsNone(k, layer[k])} IN
    [k \in present \cup {"config", "container_config"} |->
        IF k \in present THEN layer[k] ELSE layer.config]

RECURSIVE WriteV1Layers(_, _, _)
WriteV1Layers(tar, layers, i) ==
    IF i > Len(layers) THEN tar
    ELSE WriteV1Layers(
            tar \o << Entry(layers[i].id, "VERSION", "1.0"),
                      Entry(layers[i].id, "layer.tar", layers[i].content),
                      Entry(layers[i].id, "json", WriteV1LayerMetadata(layers[i])) >>,
            layers, i + 1)

\* write_v1(image, filename): the file is created when the TarFile is opened;
\* write_v1_repositories raises IndexError on an image without layers
WriteV1(img) ==
    IF Len(img.layers) = 0
    THEN [file |-> <<>>, exc |-> "IndexError"]
    ELSE [file |-> WriteV1Layers(<<Entry("", "repositories", WriteV1Repositories(img))>>,
                                 img.layers, 1),
          exc |-> None]

\* tar.extractfile(name): the last member of that name
HasMember(tar, name) == \E i \in 1..Len(tar) : tar[i].name = name

ExtractFile(tar, name) ==
    LET last == CHOOSE i \in 1..Len(tar) :
                    /\ tar[i].name = name
                    /\ \A j \in (i + 1)..Len(tar) : tar[j].name # name
    IN tar[last].data

Get(d, k, dflt) == IF k \in DOMAIN d THEN d[k] ELSE dflt

\* _parse_v1_layer(tar, layer_id); its KeyErrors are LayerReadable's negation
LayerReadable(tar, layer_id) ==
    /\ HasMember(tar, <<layer_id, "json">>)
    /\ HasMember(tar, <<layer_id, "layer.tar">>)
    /\ {"id", "os", "created"} \subseteq DOMAIN ExtractFile(tar, <<layer_id, "json">>)

ParseV1Layer(tar, layer_id) ==
    LET d == ExtractFile(tar, <<layer_id, "json">>) IN
    Layer(d["id"], Get(d, "parent", None), Get(d, "architecture", None), d["os"],
          d["created"], Get(d, "author", None), Get(d, "checksum", None),
          Get(d, "size", NoneSize), ExtractFile(tar, <<layer_id, "layer.tar">>),
          Get(d, "config", NullConfig))

\* the parent-chain walk of parse_v1 from layer_id; a walk longer than the
\* number of entries of the tar has come back to a layer it read before and
\* never ends
RECURSIVE WalkChain(_, _, _)
WalkChain(tar, layer_id, fuel) ==
    IF fuel = 0 THEN [status |-> "diverges", layers |-> <<>>]
    ELSE IF ~LayerReadable(tar, layer_id) THEN [status |-> "KeyError", layers |-> <<>>]
    ELSE LET current_layer == ParseV1Layer(tar, layer_id) IN
         IF current_layer.parent = None
         THEN [status |-> "ok", layers |-> <<current_layer>>]
         ELSE LET rest == WalkChain(tar, current_layer.parent, fuel - 1) IN
              IF rest.status = "ok"
              THEN [status |-> "ok", layers |-> <<current_layer>> \o rest.layers]
              ELSE rest

\* parse_v1(tar) of a tar whose repositories holds one name and one tag
ParseV1(tar) ==
    IF ~HasMember(tar, <<"", "repositories">>)
    THEN [status |-> "KeyError", images |-> <<>>]
    ELSE LET d    == ExtractFile(tar, <<"", "repositories">>)
             name == CHOOSE n \in DOMAIN d : TRUE
             tag  == CHOOSE t \in DOMAIN d[name] : TRUE
             walk == WalkChain(tar, d[name][tag], Len(tar) + 1)
         IN IF walk.status = "ok"
            THEN [status |-> "ok",
                  images |-> <<[name |-> name, tag |-> tag, layers |-> walk.layers]>>]
            ELSE [status |-> walk.status, images |-> <<>>]

NotParsed == [status |-> "none", images |-> <<>>]

----------------------------------------------------------------------------------------------------------------------------------------
(* utils.py, download.py, conda.py: the package cache and fetch_precs *)

EmptyCache == [tarballs |-> <<>>, infos |-> {}]

FetchStart(precs) ==
    [precs |-> precs, i |-> 1, records |-> <<>>, status |-> "running",
     exc |-> None, gets |-> <<>>]

FetchIdle ==
    /\ cache = EmptyCache
    /\ server = <<>>
    /\ fetch = [FetchStart(<<>>) EXCEPT !.status = "idle"]

\* hashlib md5 of a byte string, as a hex digest
MD5(bytes) ==
    IF bytes = <<>> THEN "d41d8cd98f00b204e9800998ecf8427e"
    ELSE IF bytes = <<1>> THEN "55a54008ad1ba589aa210d2629c1df41"
    ELSE IF bytes = <<2>> THEN "9e688c58a5487b8eaf69c9e1005ad0bf"
    ELSE "other"

\* md5_files([path]) over the cached files
Md5Files(tarballs, fn) == MD5(tarballs[fn])

\* os.path.isfile / os.path.exists of <download_dir>/fn
IsFile(tarballs, fn) == fn \in DOMAIN tarballs

\* extracted_package_dir: the tarball path minus ".tar.bz2" or ".conda"
ExtractedPackageDir(fn) ==
    IF EndsWith(fn, <<"tar", "bz2">>) THEN SubSeq(fn, 1, Len(fn) - 2)
    ELSE SubSeq(fn, 1, Len(fn) - 1)

\* download(url, target_full_path) as fetch_precs calls it, without md5,
\* sha256 or size: the outcome and the file it leaves at the target
Download(url, fn, tarballs, srv) ==
    IF IsFile(tarballs, fn)
    THEN [exc |-> "IOError", requested |-> FALSE, tarballs |-> tarballs]
    ELSE LET resp == srv[url] IN
         IF resp.status >= 400
         THEN \* raise_for_status; RuntimeError(..., caused_by=e) is itself a TypeError
              [exc |-> "TypeError", requested |-> TRUE, tarballs |-> tarballs]
         ELSE IF resp.clen # 0 /\ Len(resp.body) # resp.clen
         THEN \* the message's f-string names target_path, which is not defined
              [exc |-> "NameError", requested |-> TRUE,
               tarballs |-> (fn :> resp.body) @@ tarballs]
         ELSE [exc |-> None, requested |-> TRUE,
               tarballs |-> (fn :> resp.body) @@ tarballs]

----------------------------------------------------------------------------
(* conda.py: the staging tree and the layering engine *)

\* the dist names of the records, in record order
PkgNames ==
    <<
       "pkg001", "pkg002", "pkg003", "pkg004", "pkg005", "pkg006", "pkg007",
       "pkg008", "pkg009", "pkg010", "pkg011", "pkg012", "pkg013", "pkg014",
       "pkg015", "pkg016", "pkg017", "pkg018", "pkg019", "pkg020", "pkg021",
       "pkg022", "pkg023", "pkg024", "pkg025", "pkg026", "pkg027", "pkg028",
       "pkg029", "pkg030", "pkg031", "pkg032", "pkg033", "pkg034", "pkg035",
       "pkg036", "pkg037", "pkg038", "pkg039", "pkg040", "pkg041", "pkg042",
       "pkg043", "pkg044", "pkg045", "pkg046", "pkg047", "pkg048", "pkg049",
       "pkg050", "pkg051", "pkg052", "pkg053", "pkg054", "pkg055", "pkg056",
       "pkg057", "pkg058", "pkg059", "pkg060", "pkg061", "pkg062", "pkg063",
       "pkg064", "pkg065", "pkg066", "pkg067", "pkg068", "pkg069", "pkg070",
       "pkg071", "pkg072", "pkg073", "pkg074", "pkg075", "pkg076", "pkg077",
       "pkg078", "pkg079", "pkg080", "pkg081", "pkg082", "pkg083", "pkg084",
       "pkg085", "pkg086", "pkg087", "pkg088", "pkg089", "pkg090", "pkg091",
       "pkg092", "pkg093", "pkg094", "pkg095", "pkg096", "pkg097", "pkg098",
       "pkg099", "pkg100", "pkg101", "pkg102", "pkg103", "pkg104", "pkg105",
       "pkg106", "pkg107", "pkg108", "pkg109", "pkg110", "pkg111", "pkg112",
       "pkg113", "pkg114", "pkg115", "pkg116", "pkg117", "pkg118", "pkg119",
       "pkg120"
    >>

\* the sha256 each package's conda-meta json carries
Sha256s ==
    <<
       "sha256-001", "sha256-002", "sha256-003", "sha256-004", "sha256-005",
       "sha256-006", "sha256-007", "sha256-008", "sha256-009", "sha256-010",
       "sha256-011", "sha256-012", "sha256-013", "sha256-014", "sha256-015",
       "sha256-016", "sha256-017", "sha256-018", "sha256-019", "sha256-020",
       "sha256-021", "sha256-022", "sha256-023", "sha256-024", "sha256-025",
       "sha256-026", "sha256-027", "sha256-028", "sha256-029", "sha256-030",
       "sha256-031", "sha256-032", "sha256-033", "sha256-034", "sha256-035",
       "sha256-036", "sha256-037", "sha256-038", "sha256-039", "sha256-040",
       "sha256-041", "sha256-042", "sha256-043", "sha256-044", "sha256-045",
       "sha256-046", "sha256-047", "sha256-048", "sha256-049", "sha256-050",
       "sha256-051", "sha256-052", "sha256-053", "sha256-054", "sha256-055",
       "sha256-056", "sha256-057", "sha256-058", "sha256-059", "sha256-060",
       "sha256-061", "sha256-062", "sha256-063", "sha256-064", "sha256-065",
       "sha256-066", "sha256-067", "sha256-068", "sha256-069", "sha256-070",
       "sha256-071", "sha256-072", "sha256-073", "sha256-074", "sha256-075",
       "sha256-076", "sha256-077", "sha256-078", "sha256-079", "sha256-080",
       "sha256-081", "sha256-082", "sha256-083", "sha256-084", "sha256-085",
       "sha256-086", "sha256-087", "sha256-088", "sha256-089", "sha256-090",
       "sha256-091", "sha256-092", "sha256-093", "sha256-094", "sha256-095",
       "sha256-096", "sha256-097", "sha256-098", "sha256-099", "sha256-100",
       "sha256-101", "sha256-102", "sha256-103", "sha256-104", "sha256-105",
       "sha256-106", "sha256-107", "sha256-108", "sha256-109", "sha256-110",
       "sha256-111", "sha256-112", "sha256-113", "sha256-114", "sha256-115",
       "sha256-116", "sha256-117", "sha256-118", "sha256-119", "sha256-120"
    >>

\* meta.get("md5") + 32 * "0"
Md5Padded ==
    <<
       "md5-001-00000000000000000000000000000000",
       "md5-002-00000000000000000000000000000000",
       "md5-003-00000000000000000000000000000000",
       "md5-004-00000000000000000000000000000000",
       "md5-005-00000000000000000000000000000000",
       "md5-006-00000000000000000000000000000000",
       "md5-007-00000000000000000000000000000000",
       "md5-008-00000000000000000000000000000000",
       "md5-009-00000000000000000000000000000000",
       "md5-010-00000000000000000000000000000000",
       "md5-011-00000000000000000000000000000000",
       "md5-012-00000000000000000000000000000000",
       "md5-013-00000000000000000000000000000000",
       "md5-014-00000000000000000000000000000000",
       "md5-015-00000000000000000000000000000000",
       "md5-016-00000000000000000000000000000000",
       "md5-017-00000000000000000000000000000000",
       "md5-018-00000000000000000000000000000000",
       "md5-019-00000000000000000000000000000000",
       "md5-020-00000000000000000000000000000000",
       "md5-021-00000000000000000000000000000000",
       "md5-022-00000000000000000000000000000000",
       "md5-023-00000000000000000000000000000000",
       "md5-024-00000000000000000000000000000000",
       "md5-025-00000000000000000000000000000000",
       "md5-026-00000000000000000000000000000000",
       "md5-027-00000000000000000000000000000000",
       "md5-028-00000000000000000000000000000000",
       "md5-029-00000000000000000000000000000000",
       "md5-030-00000000000000000000000000000000",
       "md5-031-00000000000000000000000000000000",
       "md5-032-00000000000000000000000000000000",
       "md5-033-00000000000000000000000000000000",
       "md5-034-00000000000000000000000000000000",
       "md5-035-00000000000000000000000000000000",
       "md5-036-00000000000000000000000000000000",
       "md5-037-00000000000000000000000000000000",
       "md5-038-00000000000000000000000000000000",
       "md5-039-00000000000000000000000000000000",
       "md5-040-00000000000000000000000000000000",
       "md5-041-00000000000000000000000000000000",
       "md5-042-00000000000000000000000000000000",
       "md5-043-00000000000000000000000000000000",
       "md5-044-00000000000000000000000000000000",
       "md5-045-00000000000000000000000000000000",
       "md5-046-00000000000000000000000000000000",
       "md5-047-00000000000000000000000000000000",
       "md5-048-00000000000000000000000000000000",
       "md5-049-00000000000000000000000000000000",
       "md5-050-00000000000000000000000000000000",
       "md5-051-00000000000000000000000000000000",
       "md5-052-00000000000000000000000000000000",
       "md5-053-00000000000000000000000000000000",
       "md5-054-00000000000000000000000000000000",
       "md5-055-00000000000000000000000000000000",
       "md5-056-00000000000000000000000000000000",
       "md5-057-00000000000000000000000000000000",
       "md5-058-00000000000000000000000000000000",
       "md5-059-00000000000000000000000000000000",
       "md5-060-00000000000000000000000000000000",
       "md5-061-00000000000000000000000000000000",
       "md5-062-00000000000000000000000000000000",
       "md5-063-00000000000000000000000000000000",
       "md5-064-00000000000000000000000000000000",
       "md5-065-00000000000000000000000000000000",
       "md5-066-00000000000000000000000000000000",
       "md5-067-00000000000000000000000000000000",
       "md5-068-00000000000000000000000000000000",
       "md5-069-00000000000000000000000000000000",
       "md5-070-00000000000000000000000000000000",
       "md5-071-00000000000000000000000000000000",
       "md5-072-00000000000000000000000000000000",
       "md5-073-00000000000000000000000000000000",
       "md5-074-00000000000000000000000000000000",
       "md5-075-00000000000000000000000000000000",
       "md5-076-00000000000000000000000000000000",
       "md5-077-00000000000000000000000000000000",
       "md5-078-00000000000000000000000000000000",
       "md5-079-00000000000000000000000000000000",
       "md5-080-00000000000000000000000000000000",
       "md5-081-00000000000000000000000000000000",
       "md5-082-00000000000000000000000000000000",
       "md5-083-00000000000000000000000000000000",
       "md5-084-00000000000000000000000000000000",
       "md5-085-00000000000000000000000000000000",
       "md5-086-00000000000000000000000000000000",
       "md5-087-00000000000000000000000000000000",
       "md5-088-00000000000000000000000000000000",
       "md5-089-00000000000000000000000000000000",
       "md5-090-00000000000000000000000000000000",
       "md5-091-00000000000000000000000000000000",
       "md5-092-00000000000000000000000000000000",
       "md5-093-00000000000000000000000000000000",
       "md5-094-00000000000000000000000000000000",
       "md5-095-00000000000000000000000000000000",
       "md5-096-00000000000000000000000000000000",
       "md5-097-00000000000000000000000000000000",
       "md5-098-00000000000000000000000000000000",
       "md5-099-00000000000000000000000000000000",
       "md5-100-00000000000000000000000000000000",
       "md5-101-00000000000000000000000000000000",
       "md5-102-00000000000000000000000000000000",
       "md5-103-00000000000000000000000000000000",
       "md5-104-00000000000000000000000000000000",
       "md5-105-00000000000000000000000000000000",
       "md5-106-00000000000000000000000000000000",
       "md5-107-00000000000000000000000000000000",
       "md5-108-00000000000000000000000000000000",
       "md5-109-00000000000000000000000000000000",
       "md5-110-00000000000000000000000000000000",
       "md5-111-00000000000000000000000000000000",
       "md5-112-00000000000000000000000000000000",
       "md5-113-00000000000000000000000000000000",
       "md5-114-00000000000000000000000000000000",
       "md5-115-00000000000000000000000000000000",
       "md5-116-00000000000000000000000000000000",
       "md5-117-00000000000000000000000000000000",
       "md5-118-00000000000000000000000000000000",
       "md5-119-00000000000000000000000000000000",
       "md5-120-00000000000000000000000000000000"
    >>

PkgName(k) == PkgNames[k]

File(name) == [name |-> name, type |-> "file", kids |-> <<>>]

Dir(name, kids) == [name |-> name, type |-> "dir", kids |-> kids]

\* what the install put under opt/conda for record k, by kind of package:
\* "bin" a script in the shared bin/, "lib" a static library in the shared
\* lib/, "own" a data file in a directory of its own under share/
PkgFiles(k, kind) ==
    IF kind = "bin" THEN << << <<"bin">>, <<PkgName(k), "sh">> >> >>
    ELSE IF kind = "lib" THEN << << <<"lib">>, <<PkgName(k), "a">> >> >>
    ELSE << << <<"share">>, <<PkgName(k)>>, <<"data">> >> >>

\* conda-meta/<dist_name>.json
Meta(k, kind) == [sha256 |-> Sha256s[k], md5 |-> Md5Padded[k], files |-> PkgFiles(k, kind)]

\* pkgs/<dist_name>/, the extracted package
PkgDir(k) ==
    Dir(<<PkgName(k)>>,
        << Dir(<<"info">>, << File(<<"index", "json">>),
                              File(<<"repodata_record", "json">>) >>) >>)

\* the staging root when chroot_install has returned: only opt/ is left.
\* The kind says where the installer put the packages' files; "none" is the
\* tree of an install that ended before it linked a package (conda-meta has
\* only the history file write_conda_meta wrote).
StageTree(n, kind) ==
    Dir(<<>>,
     << Dir(<<"opt">>,
         << Dir(<<"conda">>,
             << Dir(<<"bin">>,
                    IF kind = "bin" THEN [k \in 1..n |-> File(<<PkgName(k), "sh">>)]
                    ELSE <<>>),
                Dir(<<"conda-meta">>,
                    <<File(<<"history">>)>>
                    \o (IF kind = "none" THEN <<>>
                        ELSE [k \in 1..n |-> File(<<PkgName(k), "json">>)])),
                Dir(<<"lib">>,
                    IF kind = "lib" THEN [k \in 1..n |-> File(<<PkgName(k), "a">>)]
                    ELSE <<>>),
                Dir(<<"pkgs">>,
                    [k \in 1..n |-> PkgDir(k)]
                    \o << File(<<"urls">>), File(<<"urls", "txt">>) >>),
                Dir(<<"share">>,
                    IF kind = "own"
                    THEN [k \in 1..n |-> Dir(<<PkgName(k)>>, <<File(<<"data">>)>>)]
                    ELSE <<>>) >>) >>) >>)

\* os.walk(root), top down: per directory its names (directories first),
\* then the walk of each of its directories; paths relative to the root's
\* parent prefix
RECURSIVE Flatten(_, _, _)
Flatten(seqs, lo, hi) ==
    IF lo > hi THEN <<>>
    ELSE IF lo = hi THEN seqs[lo]
    ELSE Flatten(seqs, lo, (lo + hi) \div 2) \o Flatten(seqs, (lo + hi) \div 2 + 1, hi)

RECURSIVE OsWalk(_, _)
OsWalk(prefix, node) ==
    [i \in 1..Len(node.kids) |->
        [path |-> Append(prefix, node.kids[i].name), type |-> node.kids[i].type]]
    \o Flatten([i \in 1..Len(node.kids) |->
                   IF node.kids[i].type = "dir"
                   THEN OsWalk(Append(prefix, node.kids[i].name), node.kids[i])
                   ELSE <<>>],
               1, Len(node.kids))

\* the file system seen through a walk: path -> [type, data]
FsOf(walk) ==
    [p \in {walk[i].path : i \in 1..Len(walk)} |->
        LET i == CHOOSE i \in 1..Len(walk) : walk[i].path = p
        IN [type |-> walk[i].type, data |-> <<>>]]

Stage(n, kind, base) ==
    LET walk == OsWalk(<<>>, StageTree(n, kind)) IN
    [n |-> n, kind |-> kind, base |-> base, walk |-> walk, fs |-> FsOf(walk)]

NoStage == [n |-> 0, kind |-> "none", base |-> 0, walk |-> <<>>, fs |-> <<>>]

\* TarFile.add(recursive=True) below a directory of the staging tree: each
\* child in sorted order, a directory followed by its own children; what
\* the filter drops is left out with everything below it
RECURSIVE TarAddTree(_, _, _)
TarAddTree(prefix, node, filter) ==
    Flatten([i \in 1..Len(node.kids) |->
               LET info == TarInfo(Append(prefix, node.kids[i].name),
                                   node.kids[i].type, <<>>)
               IN IF Filtered(filter, info) THEN <<>>
                  ELSE <<info>> \o (IF info.type = "dir"
                                    THEN TarAddTree(info.name, node.kids[i], filter)
                                    ELSE <<>>)],
            1, Len(node.kids))

\* write_tar_from_path(hostpath, arcpath="/", recursive=True, filter): the
\* staging root itself is the first member, under the empty name
WriteTarFromTree(tree, filter) ==
    LET root == TarInfo(<<>>, "dir", <<>>) IN
    IF Filtered(filter, root) THEN <<>>
    ELSE <<root>> \o TarAddTree(<<>>, tree, filter)

LayStart == [i |-> 1, counter |-> 0, files_in_layers |-> {}, status |-> "running"]

LayeringIdle ==
    /\ stage = NoStage
    /\ lay = [LayStart EXCEPT !.status = "idle"]

\* get_dist_name(fn)
GetDistName(fn) ==
    IF EndsWith(fn, <<"tar", "bz2">>) THEN SubSeq(fn, 1, Len(fn) - 2)
    ELSE IF Len(fn) > 1 THEN SubSeq(fn, 1, Len(fn) - 1)
    ELSE fn

\* os.path.dirname
Dirname(path) == SubSeq(path, 1, Len(path) - 1)

Keys(paths) == {paths[i][1] : i \in 1..Len(paths)}

\* dict.update with <<host, arc>> pairs: a new key goes last, a key already
\* there keeps its place
RECURSIVE DictUpdate(_, _)
DictUpdate(paths, new) ==
    IF Len(new) = 0 THEN paths
    ELSE DictUpdate(IF new[1][1] \in Keys(paths) THEN paths ELSE Append(paths, new[1]),
                    Tail(new))

HostCondaOpt == << <<"opt">>, <<"conda">> >>

\* _paths_from_record(record, hostpath, meta, dist_name): host path (below
\* hostpath) and archive path of everything the package owns
PathsFromRecord(meta, dist_name, pkgdir) ==
    LET dist_path == HostCondaOpt \o << <<"pkgs">>, dist_name >>
        meta_path == HostCondaOpt \o << <<"conda-meta">>, Append(dist_name, "json") >>
        files     == [i \in 1..Len(meta.files) |->
                         << HostCondaOpt \o meta.files[i], HostCondaOpt \o meta.files[i] >>]
        dirs      == [i \in 1..Len(files) |-> << Dirname(files[i][1]), Dirname(files[i][2]) >>]
        walked    == OsWalk(dist_path, pkgdir)
    IN DictUpdate(
         DictUpdate(DictUpdate(files, dirs),
                    << <<dist_path, dist_path>>, <<meta_path, meta_path>> >>),
         [i \in 1..Len(walked) |-> << walked[i].path, walked[i].path >>])

\* base_id = meta.get("sha256", meta.get("md5") + 32 * "0")
BaseId(meta) == IF meta.sha256 # None THEN meta.sha256 ELSE meta.md5

\* the catch-all paths: every name of os.walk(hostpath) not in files_in_layers
Remaining(walk, files_in_layers) ==
    LET NotInLayers(e) == e.path \notin files_in_layers
        left == SelectSeq(walk, NotInLayers)
    IN [i \in 1..Len(left) |-> << left[i].path, left[i].path >>]

----------------------------------------------------------------------------
(* conda.py: _precs_from_environment *)
(* A line of text is the sequence of its tokens: the separators "#", "@",   *)
(* "/" and "." are tokens of their own, every other token is a run of       *)
(* characters without a separator.                                          *)

\* str.rpartition(sep): the text before the last sep and the text after it;
\* without a sep the whole text is the tail
RPartition(text, sep) ==
    LET at == {i \in 1..Len(text) : text[i] = sep} IN
    IF at = {} THEN [head |-> <<>>, tail |-> text]
    ELSE LET last == CHOOSE i \in at : \A j \in at : j <= i
         IN [head |-> SubSeq(text, 1, last - 1),
             tail |-> SubSeq(text, last + 1, Len(text))]

\* a file name's text as the sequence of its dot-separated segments
Segments(text) == LET NotDot(t) == t # "." IN SelectSeq(text, NotDot)

\* the lines the loop over explicit.splitlines() skips
SkipLine(line) == Len(line) = 0 \/ line[1] = "#" \/ line[1] = "@"

\* ordering: (dist_name, url, md5, fn) of every line that is not skipped
Ordering(explicit) ==
    LET Kept(line) == ~SkipLine(line)
        lines == SelectSeq(explicit, Kept)
    IN [k \in 1..Len(lines) |->
          LET url == RPartition(lines[k], "#").head
              md5 == RPartition(lines[k], "#").tail
              fn  == Segments(RPartition(url, "/").tail)
          IN [dist_name |-> GetDistName(fn), url |-> url, md5 |-> md5, fn |-> fn]]

\* packages = {p["dist_name"]: p for p in listing}: the last entry of a name wins
Packages(listing) ==
    [dn \in {listing[i].dist_name : i \in 1..Len(listing)} |->
        listing[CHOOSE i \in 1..Len(listing) :
                  /\ listing[i].dist_name = dn
                  /\ \A j \in 1..Len(listing) : listing[j].dist_name = dn => j <= i]]

\* PackageCacheRecord(url=, md5=, fn=, package_tarball_full_path=,
\* extracted_package_dir=, **package), package without its "platform"
PackageCacheRecord(o, package) ==
    [url |-> o.url, md5 |-> o.md5, fn |-> o.fn,
     package_tarball_full_path |-> o.fn,
     extracted_package_dir |-> o.dist_name,
     dist_name |-> package.dist_name, name |-> package.name,
     base_url |-> package.base_url]

PrecsFromEnvironment_ListingOrder(listing, explicit) ==
    LET ordering == Ordering(explicit)
        Line(dn) == ordering[CHOOSE k \in 1..Len(ordering) : ordering[k].dist_name = dn]
    IN IF \E i \in 1..Len(listing) :
             \A k \in 1..Len(ordering) : ordering[k].dist_name # listing[i].dist_name
       THEN [status |-> "KeyError", precs |-> <<>>]
       ELSE [status |-> "ok",
             precs |-> [i \in 1..Len(listing) |->
                          PackageCacheRecord(Line(listing[i].dist_name), listing[i])]]

\* _precs_from_environment(environment, list_flag, download_dir, user_conda)
\* on the two outputs of the listing tool; packages[dist_name] and
\* package.pop("platform") raise KeyError on a missing entry, and pop on
\* an entry that an earlier line has already used
PrecsFromEnvironment(listing, explicit) ==
    LET packages == Packages(listing)
        ordering == Ordering(explicit)
        Fails(k)  == \/ ordering[k].dist_name \notin DOMAIN packages
                     \/ \E j \in 1..(k - 1) : ordering[j].dist_name = ordering[k].dist_name
    IN IF \E k \in 1..Len(ordering) : Fails(k)
       THEN [status |-> "KeyError", precs |-> <<>>]
       ELSE [status |-> "ok",
             precs |-> [k \in 1..Len(ordering) |->
                          PackageCacheRecord(ordering[k], packages[ordering[k].dist_name])]]

----------------------------------------------------------------------------
(* idle values of the command line's state *)

EnvIdle == [pkgs |-> <<>>, listing |-> <<>>, explicit |-> <<>>, precs |-> <<>>,
            status |-> "idle"]

\* the parsed command line and handle_conda_build's progress; tools is the
\* log of the listing and solver runs, tmpdir the staging directory
RunStart(name, prefix, package_specs, base, strategy) ==
    [name |-> name, prefix |-> prefix, package_specs |-> package_specs,
     base |-> base, image |-> <<"conda-docker", "latest">>,
     layering_strategy |-> strategy,
     phase |-> "start", tools |-> <<>>, tmpdir |-> "none", exc |-> None]

RunIdle == [RunStart(None, None, <<>>, <<"scratch">>, "layered") EXCEPT !.phase = "idle"]

CliIdle ==
    /\ env = EnvIdle
    /\ run = RunIdle

----------------------------------------------------------------------------
(* idle values of chroot_install's state and of the repodata fetch *)

\* exit statuses of the extractor and of the sandboxed installer
ExitStatuses == {0, 1, 139}

InstStart(records, channels_remap) ==
    [records |-> records, remap |-> channels_remap, step |-> "start",
     root |-> {}, bin |-> {}, pkgs |-> {}, made |-> {},
     env_txt |-> <<>>, urls |-> <<>>, urls_txt |-> <<>>,
     status |-> NoneSize, exc |-> None]

\* None where a string is expected: the raw repodata string
NoneText == [none |-> TRUE, text |-> <<>>]

RepoStart(url, status_code, body, allow_non_channel_urls) ==
    [url |-> url, status_code |-> status_code, body |-> body,
     allow_non_channel_urls |-> allow_non_channel_urls,
     step |-> "start", caller |-> None, raw |-> NoneText, result |-> [none |-> TRUE, keys |-> {}],
     exc |-> None]

ToolIdle ==
    /\ inst = [InstStart(<<>>, <<>>) EXCEPT !.step = "idle"]
    /\ repo = [RepoStart(<<>>, 200, <<>>, FALSE) EXCEPT !.step = "idle"]

----------------------------------------------------------------------------
(* idle values of the registry client's state *)

NoManifest == [history |-> <<>>, fsLayers |-> <<>>]

PullIdle == [step |-> "idle", token |-> None, i |-> 0, layers |-> <<>>]

RegistryIdle ==
    /\ manifest = NoManifest
    /\ pull = PullIdle
    /\ requests = <<>>

----------------
(* The Image API driven by a caller: appends and removals, then
   write_file and from_file. *)

ImageNames == { <<"empty", "v1">>, <<"example", "latest">> }

BaseIds == {None, "a"}

Filters == {"none", "conda"}

PathInputs == { <<<<"d">>>> }

PathsInputs == { << << <<<<"g">>>>, <<<<"g">>>> >>,
                    << <<<<"d">>, <<"libz", "a">>>>, <<<<"lib">>, <<"libz", "a">>>> >> >> }

ContentsInputs == { << << <<<<"a">>>>, <<1>> >> >> }

ImageInit ==
    /\ \E nt \in ImageNames : image = EmptyImage(nt[1], nt[2])
    /\ clock = 0
    /\ pc = "building"
    /\ outfile = NoFile
    /\ exc = None
    /\ parsed = NotParsed
    /\ op = "init"
    /\ RegistryIdle
    /\ FetchIdle
    /\ LayeringIdle
    /\ CliIdle
    /\ ToolIdle

\* Image.add_layer_path(path, arcpath, recursive, filter, base_id)
AddLayerPath ==
    /\ pc = "building"
    /\ clock < MaxAppends
    /\ \E path \in PathInputs, recursive \in BOOLEAN, filter \in Filters, base_id \in BaseIds :
          image' = [image EXCEPT !.layers =
                       AddLayer(image.layers,
                                WriteTarFromPath(HostFS, path, <<>>, recursive, filter),
                                base_id, clock + 1)]
    /\ clock' = clock + 1
    /\ op' = "add_layer_path"
    /\ UNCHANGED <<pc, outfile, exc, parsed>>
    /\ UNCHANGED <<regVars, fetchVars, layVars, cliVars, toolVars>>

\* Image.add_layer_paths(paths, filter, base_id)
AddLayerPaths ==
    /\ pc = "building"
    /\ clock < MaxAppends
    /\ \E paths \in PathsInputs, filter \in Filters, base_id \in BaseIds :
          image' = [image EXCEPT !.layers =
                       AddLayer(image.layers, WriteTarFromPaths(HostFS, paths, filter),
                                base_id, clock + 1)]
    /\ clock' = clock + 1
    /\ op' = "add_layer_paths"
    /\ UNCHANGED <<pc, outfile, exc, parsed>>
    /\ UNCHANGED <<regVars, fetchVars, layVars, cliVars, toolVars>>

\* Image.add_layer_contents(contents, filter, base_id)
AddLayerContents ==
    /\ pc = "building"
    /\ clock < MaxAppends
    /\ \E contents \in ContentsInputs, filter \in Filters, base_id \in BaseIds :
          image' = [image EXCEPT !.layers =
                       AddLayer(image.layers, WriteTarFromContents(contents, filter),
                                base_id, clock + 1)]
    /\ clock' = clock + 1
    /\ op' = "add_layer_contents"
    /\ UNCHANGED <<pc, outfile, exc, parsed>>
    /\ UNCHANGED <<regVars, fetchVars, layVars, cliVars, toolVars>>

\* Image.remove_layer(); on an image without layers pop raises IndexError
\* and changes nothing
RemoveLayerCall ==
    /\ pc = "building"
    /\ Len(image.layers) > 0
    /\ image' = [image EXCEPT !.layers = RemoveLayer(image.layers)]
    /\ op' = "remove_layer"
    /\ UNCHANGED <<clock, pc, outfile, exc, parsed>>
    /\ UNCHANGED <<regVars, fetchVars, layVars, cliVars, toolVars>>

\* Image.write_file(filename)
WriteFile ==
    /\ pc = "building"
    /\ LET w == WriteV1(image) IN
        /\ outfile' = TarFile(w.file)
        /\ exc' = w.exc
    /\ pc' = "written"
    /\ op' = "write_file"
    /\ UNCHANGED <<image, clock, parsed>>
    /\ UNCHANGED <<regVars, fetchVars, layVars, cliVars, toolVars>>

\* Image.from_file(filename)
FromFile ==
    /\ pc = "written"
    /\ parsed' = ParseV1(outfile.entries)
    /\ pc' = "parsed"
    /\ op' = "from_file"
    /\ UNCHANGED <<image, clock, outfile, exc>>
    /\ UNCHANGED <<regVars, fetchVars, layVars, cliVars, toolVars>>

ImageNext ==
    \/ AddLayerPath
    \/ AddLayerPaths
    \/ AddLayerContents
    \/ RemoveLayerCall
    \/ WriteFile
    \/ FromFile

SpecImage == ImageInit /\ [][ImageNext]_vars

----------------------------------------------------------------------------
(* registry/client.py *)

\* the v1Compatibility documents a registry serves: the topmost entry of a
\* stock manifest carries architecture, os and config, the others often only
\* id, parent and created
V1Shapes == {"full", "bare", "emptyconfig"}

V1Doc(id, parent, shape) ==
    ("id" :> id) @@ ("created" :> "t0")
    @@ (IF parent = None THEN <<>> ELSE ("parent" :> parent))
    @@ (IF shape = "bare" THEN <<>>
        ELSE ("os" :> "linux") @@ ("architecture" :> "amd64"))
    @@ (IF shape = "full" THEN ("config" :> Obj({<<"Cmd", "/bin/sh">>}))
        ELSE IF shape = "emptyconfig" THEN ("config" :> Obj({}))
        ELSE <<>>)

V1Docs == { V1Doc(id, parent, shape) :
               id \in {"a", "b"}, parent \in {None, "a", "b"}, shape \in V1Shapes }

BlobSum(i) == <<"sha256:1", "sha256:2", "sha256:3", "sha256:4">>[i]

\* the registry's blob store: the gzipped layer tar of each digest
Gzip(bytes) == [gzip |-> bytes]

Blob(blobSum) ==
    IF blobSum = "sha256:1"
    THEN Gzip(<<TarInfo(<<<<"bin">>>>, "dir", <<>>),
                TarInfo(<<<<"bin">>, <<"sh">>>>, "file", <<7>>)>>)
    ELSE Gzip(<<TarInfo(<<<<"etc">>>>, "dir", <<>>)>>)

\* gzip.decompress
GzipDecompress(blob) == blob.gzip

Manifests ==
    UNION { { [history |-> h,
               fsLayers |-> [i \in 1..n |-> [blobSum |-> BlobSum(i)]]] :
              h \in [1..n -> V1Docs] } : n \in 0..MaxManifest }

\* zip(manifest["history"], manifest["fsLayers"])
ZipLen(m) == IF Len(m.history) < Len(m.fsLayers) THEN Len(m.history) ELSE Len(m.fsLayers)

PulledLayer_Reversed(m, i, digest) ==
    LET d == m.history[Len(m.history) - i + 1] IN
    Layer(d["id"], Get(d, "parent", None), Get(d, "architecture", None),
          Get(d, "os", None), d["created"], Get(d, "author", None),
          Get(d, "checksum", None), Get(d, "size", NoneSize), digest,
          Get(d, "config", NullConfig))

\* the Layer pull_image builds from the i-th manifest entry and its blob
PulledLayer(m, i, digest) ==
    LET d == m.history[i] IN
    Layer(d["id"], Get(d, "parent", None), Get(d, "architecture", None),
          Get(d, "os", None), d["created"], Get(d, "author", None),
          Get(d, "checksum", None), Get(d, "size", NoneSize), digest,
          Get(d, "config", NullConfig))

BaseImageName == "library/debian"

BaseImageTag == "sid-slim"

RegistryInit ==
    /\ image = EmptyImage(None, None)
    /\ clock = 0
    /\ pc = "pulling"
    /\ outfile = NoFile
    /\ exc = None
    /\ parsed = NotParsed
    /\ op = "init"
    /\ manifest \in Manifests
    /\ pull = [PullIdle EXCEPT !.step = "start"]
    /\ requests = <<>>
    /\ FetchIdle
    /\ LayeringIdle
    /\ CliIdle
    /\ ToolIdle

\* any request may be answered with an HTTP error, which urlopen raises
HttpFails ==
    /\ pc = "pulling"
    /\ pull.step \in {"start", "token", "blobs"}
    /\ pull.step = "blobs" => pull.i <= ZipLen(manifest)
    /\ requests' = Append(requests,
          IF pull.step = "start" THEN [kind |-> "token", arg |-> BaseImageName, auth |-> None]
          ELSE IF pull.step = "token"
               THEN [kind |-> "manifest", arg |-> BaseImageTag, auth |-> pull.token]
               ELSE [kind |-> "blob", arg |-> manifest.fsLayers[pull.i].blobSum,
                     auth |-> pull.token])
    /\ pc' = "failed"
    /\ exc' = "HTTPError"
    /\ op' = "pull_image"
    /\ UNCHANGED <<image, clock, outfile, parsed, manifest, pull>>
    /\ UNCHANGED <<fetchVars, layVars, cliVars, toolVars>>

\* get_token(scope=f"repository:{image}:pull")
GetToken ==
    /\ pc = "pulling"
    /\ pull.step = "start"
    /\ requests' = Append(requests, [kind |-> "token", arg |-> BaseImageName, auth |-> None])
    /\ pull' = [pull EXCEPT !.step = "token", !.token = "bearer"]
    /\ op' = "get_token"
    /\ UNCHANGED <<image, clock, pc, outfile, exc, parsed, manifest>>
    /\ UNCHANGED <<fetchVars, layVars, cliVars, toolVars>>

\* get_manifest(image, tag, token)
GetManifest ==
    /\ pc = "pulling"
    /\ pull.step = "token"
    /\ requests' = Append(requests,
                          [kind |-> "manifest", arg |-> BaseImageTag, auth |-> pull.token])
    /\ pull' = [pull EXCEPT !.step = "blobs", !.i = 1]
    /\ op' = "get_manifest"
    /\ UNCHANGED <<image, clock, pc, outfile, exc, parsed, manifest>>
    /\ UNCHANGED <<fetchVars, layVars, cliVars, toolVars>>

\* one round of pull_image's loop: get_blob and layers.append(Layer(...))
GetBlob ==
    /\ pc = "pulling"
    /\ pull.step = "blobs"
    /\ pull.i <= ZipLen(manifest)
    /\ requests' = Append(requests,
                          [kind |-> "blob", arg |-> manifest.fsLayers[pull.i].blobSum,
                           auth |-> pull.token])
    /\ pull' = [pull EXCEPT
                  !.i = pull.i + 1,
                  !.layers = Append(pull.layers,
                               PulledLayer(manifest, pull.i,
                                  GzipDecompress(Blob(manifest.fsLayers[pull.i].blobSum))))]
    /\ op' = "get_blob"
    /\ UNCHANGED <<image, clock, pc, outfile, exc, parsed, manifest>>
    /\ UNCHANGED <<fetchVars, layVars, cliVars, toolVars>>

\* return Image(image, tag, layers)
PullReturn ==
    /\ pc = "pulling"
    /\ pull.step = "blobs"
    /\ pull.i > ZipLen(manifest)
    /\ image' = [name |-> BaseImageName, tag |-> BaseImageTag, layers |-> pull.layers]
    /\ pull' = [pull EXCEPT !.step = "returned"]
    /\ pc' = "building"
    /\ op' = "pull_image"
    /\ UNCHANGED <<clock, outfile, exc, parsed, manifest, requests>>
    /\ UNCHANGED <<fetchVars, layVars, cliVars, toolVars>>

\* the base image is pulled, written with nothing appended and read back
RegistryNext ==
    \/ HttpFails
    \/ GetToken
    \/ GetManifest
    \/ GetBlob
    \/ PullReturn
    \/ WriteFile
    \/ FromFile

SpecRegistry == RegistryInit /\ [][RegistryNext]_vars

----------------------------------------------------------------------------
(* fetch_precs(download_dir, precs) *)

PackageFns == { <<"p", "tar", "bz2">>, <<"q", "conda">> }

Url(fn) == [channel |-> "https://A/linux-64", fn |-> fn]

\* the precs a resolver hands over: each expects the tarball <<1>>
Precs == { [fn |-> fn, url |-> Url(fn), md5 |-> MD5(<<1>>)] : fn \in PackageFns }

PrecLists == UNION { [1..n -> Precs] : n \in 0..MaxPrecs }

Responses ==
    { [status |-> 404, clen |-> 0, body |-> <<>>] } \cup
    { [status |-> 200, clen |-> c, body |-> b] : c \in {0, 1, 2}, b \in {<<1>>, <<2>>} }

FnsOf(precs) == { precs[i].fn : i \in 1..Len(precs) }

FetchInit ==
    /\ image = EmptyImage(None, None)
    /\ clock = 0
    /\ pc = "idle"
    /\ outfile = NoFile
    /\ exc = None
    /\ parsed = NotParsed
    /\ op = "init"
    /\ RegistryIdle
    /\ LayeringIdle
    /\ CliIdle
    /\ ToolIdle
    /\ \E precs \in PrecLists :
        /\ fetch = FetchStart(precs)
        /\ \E have \in SUBSET FnsOf(precs) :
              \E t \in [have -> {<<1>>, <<2>>}] : cache = [tarballs |-> t, infos |-> {}]
        /\ server \in [{Url(fn) : fn \in FnsOf(precs)} -> Responses]

\* PackageCacheRecord.from_objects(prec, package_tarball_full_path, extracted_package_dir)
FromObjects(prec, package_tarball_full_path, extracted_package_dir) ==
    [fn |-> prec.fn, url |-> prec.url, md5 |-> prec.md5,
     package_tarball_full_path |-> package_tarball_full_path,
     extracted_package_dir |-> extracted_package_dir]

FetchCached_Prepend ==
    /\ fetch.status = "running"
    /\ fetch.i <= Len(fetch.precs)
    /\ LET prec == fetch.precs[fetch.i] IN
        /\ IsFile(cache.tarballs, prec.fn)
        /\ Md5Files(cache.tarballs, prec.fn) = prec.md5
        /\ cache' = [cache EXCEPT !.infos = @ \cup {ExtractedPackageDir(prec.fn)}]
        /\ fetch' = [fetch EXCEPT
                       !.i = @ + 1,
                       !.records = <<FromObjects(prec, prec.fn,
                                                 ExtractedPackageDir(prec.fn))>> \o @]
    /\ op' = "already_have"
    /\ UNCHANGED <<image, clock, pc, outfile, exc, parsed, server>>
    /\ UNCHANGED <<regVars, layVars, cliVars, toolVars>>

\* a round of the loop whose tarball is in the cache with the right md5
FetchCached ==
    /\ fetch.status = "running"
    /\ fetch.i <= Len(fetch.precs)
    /\ LET prec == fetch.precs[fetch.i] IN
        /\ IsFile(cache.tarballs, prec.fn)
        /\ Md5Files(cache.tarballs, prec.fn) = prec.md5
        /\ cache' = [cache EXCEPT !.infos = @ \cup {ExtractedPackageDir(prec.fn)}]
        /\ fetch' = [fetch EXCEPT
                       !.i = @ + 1,
                       !.records = Append(@, FromObjects(prec, prec.fn,
                                                         ExtractedPackageDir(prec.fn)))]
    /\ op' = "already_have"
    /\ UNCHANGED <<image, clock, pc, outfile, exc, parsed, server>>
    /\ UNCHANGED <<regVars, layVars, cliVars, toolVars>>

\* a round of the loop that calls download(prec.url, <download_dir>/fn)
FetchDownload ==
    /\ fetch.status = "running"
    /\ fetch.i <= Len(fetch.precs)
    /\ LET prec == fetch.precs[fetch.i]
           d    == Download(prec.url, prec.fn, cache.tarballs, server)
           gets == IF d.requested
                   THEN Append(fetch.gets, [idx |-> fetch.i, url |-> prec.url])
                   ELSE fetch.gets
       IN
        /\ ~(IsFile(cache.tarballs, prec.fn) /\ Md5Files(cache.tarballs, prec.fn) = prec.md5)
        /\ IF d.exc = None
           THEN /\ cache' = [tarballs |-> d.tarballs,
                             infos |-> cache.infos \cup {ExtractedPackageDir(prec.fn)}]
                /\ fetch' = [fetch EXCEPT
                               !.i = @ + 1,
                               !.gets = gets,
                               !.records = Append(@, FromObjects(prec, prec.fn,
                                                       ExtractedPackageDir(prec.fn)))]
           ELSE /\ cache' = [cache EXCEPT !.tarballs = d.tarballs]
                /\ fetch' = [fetch EXCEPT !.status = "failed", !.exc = d.exc, !.gets = gets]
    /\ op' = "fetching"
    /\ UNCHANGED <<image, clock, pc, outfile, exc, parsed, server>>
    /\ UNCHANGED <<regVars, layVars, cliVars, toolVars>>

\* return records
FetchReturn ==
    /\ fetch.status = "running"
    /\ fetch.i > Len(fetch.precs)
    /\ fetch' = [fetch EXCEPT !.status = "returned"]
    /\ op' = "fetch_precs"
    /\ UNCHANGED <<image, clock, pc, outfile, exc, parsed, cache, server>>
    /\ UNCHANGED <<regVars, layVars, cliVars, toolVars>>

FetchNext ==
    \/ FetchCached
    \/ FetchDownload
    \/ FetchReturn

SpecFetch == FetchInit /\ [][FetchNext]_vars

----------------------------------------------------------------------------
(* _precs_from_environment on the listings of an environment *)

\* the packages an environment may hold: a .tar.bz2, a .conda, and a
\* .tar.bz2 whose version has a dot
EnvPkgs ==
    { [name |-> "p", dist_name |-> <<"p-1-0">>, md5 |-> "55a54008ad1ba589aa210d2629c1df41",
       fn |-> <<"p-1-0", ".", "tar", ".", "bz2">>],
      [name |-> "q", dist_name |-> <<"q-2-0">>, md5 |-> "9e688c58a5487b8eaf69c9e1005ad0bf",
       fn |-> <<"q-2-0", ".", "conda">>],
      [name |-> "r", dist_name |-> <<"r-1", "5-0">>, md5 |-> "d41d8cd98f00b204e9800998ecf8427e",
       fn |-> <<"r-1", ".", "5-0", ".", "tar", ".", "bz2">>] }

ChannelUrl == <<"https:", "/", "/", "conda", ".", "anaconda", ".", "org", "/", "main", "/", "linux-64">>

\* the line "conda list --explicit --md5" prints for a package
ExplicitLine(d) == ChannelUrl \o <<"/">> \o d.fn \o <<"#", d.md5>>

\* the entry "conda list --json" prints for a package
ListingEntry(d) ==
    [dist_name |-> d.dist_name, name |-> d.name, platform |-> "linux-64",
     base_url |-> "https://conda.anaconda.org/main"]

\* what the tool prints around the package lines: nothing, a comment, or a
\* blank line and the @EXPLICIT marker
Fillers == { <<>>,
             << <<"#", " platform: linux-64">> >>,
             << <<>>, <<"@", "EXPLICIT">> >> }

\* the packages of an environment in install order, without repetition
EnvLists ==
    UNION { { l \in [1..n -> EnvPkgs] : \A i, j \in 1..n : i # j => l[i] # l[j] } :
            n \in 0..MaxEnv }

Reorderings(l) ==
    { [i \in 1..Len(l) |-> l[f[i]]] :
        f \in { g \in [1..Len(l) -> 1..Len(l)] :
                  \A i, j \in 1..Len(l) : i # j => g[i] # g[j] } }

\* the explicit file: the package lines in install order, a filler before
\* each and one at the end
RECURSIVE ExplicitFile(_, _, _)
ExplicitFile(pkgs, fill, k) ==
    IF k > Len(pkgs) THEN fill[k]
    ELSE fill[k] \o <<ExplicitLine(pkgs[k])>> \o ExplicitFile(pkgs, fill, k + 1)

EnvInit ==
    /\ image = EmptyImage(None, None)
    /\ clock = 0
    /\ pc = "idle"
    /\ outfile = NoFile
    /\ exc = None
    /\ parsed = NotParsed
    /\ op = "init"
    /\ RegistryIdle
    /\ FetchIdle
    /\ LayeringIdle
    /\ run = RunIdle
    /\ ToolIdle
    /\ \E pkgs \in EnvLists :
         \E order \in Reorderings(pkgs), fill \in [1..(Len(pkgs) + 1) -> Fillers] :
            env = [pkgs |-> pkgs,
                   listing |-> [i \in 1..Len(pkgs) |-> ListingEntry(order[i])],
                   explicit |-> ExplicitFile(pkgs, fill, 1),
                   precs |-> <<>>,
                   status |-> "start"]

\* precs_from_environment_name / precs_from_environment_prefix
PrecsFromEnvironmentCall ==
    /\ env.status = "start"
    /\ LET r == PrecsFromEnvironment(env.listing, env.explicit)
       IN env' = [env EXCEPT !.precs = r.precs, !.status = r.status]
    /\ UNCHANGED <<imgVars, regVars, fetchVars, layVars, run, toolVars>>

EnvNext == PrecsFromEnvironmentCall

SpecEnv == EnvInit /\ [][EnvNext]_vars

----------------------------------------------------------------------------
(* add_conda_package_layers(image, hostpath, filter=conda_file_filter(), records) *)

PackageKinds == {"bin", "lib", "own"}

RecordCounts == (0..SmallRecords) \cup ((LayerCap - 1)..(LayerCap + OverCap))

\* the base image the layers go on: scratch, or a pulled one-layer base
BaseLayers(base) ==
    IF base = 0 THEN <<>>
    ELSE << Layer("base", None, "amd64", "linux", "t0", None, None, NoneSize,
                  GzipDecompress(Blob(BlobSum(1))), Obj({<<"Cmd", "/bin/sh">>})) >>

LayeringInit ==
    /\ clock = 0
    /\ pc = "building"
    /\ outfile = NoFile
    /\ exc = None
    /\ parsed = NotParsed
    /\ op = "init"
    /\ RegistryIdle
    /\ FetchIdle
    /\ CliIdle
    /\ ToolIdle
    /\ \E n \in RecordCounts, kind \in PackageKinds, base \in {0, 1} :
        /\ stage = Stage(n, kind, base)
        /\ image = [name |-> "conda-docker", tag |-> "latest", layers |-> BaseLayers(base)]
    /\ lay = LayStart

\* one round of the loop over the records; open(meta_path) raises
\* FileNotFoundError when the installer left no conda-meta/<dist_name>.json
PackageLayer ==
    /\ lay.status = "running"
    /\ lay.i <= stage.n
    /\ ~(lay.counter > LayerCap)
    /\ LET dist_name == GetDistName(<<PkgName(lay.i), "tar", "bz2">>)
           meta_path == HostCondaOpt \o << <<"conda-meta">>, Append(dist_name, "json") >>
           meta      == Meta(lay.i, stage.kind)
           paths     == PathsFromRecord(meta, dist_name, PkgDir(lay.i))
       IN IF meta_path \notin DOMAIN stage.fs
          THEN /\ lay' = [lay EXCEPT !.status = "FileNotFoundError"]
               /\ UNCHANGED <<image, clock>>
          ELSE /\ image' = [image EXCEPT !.layers =
                               AddLayer(image.layers,
                                        WriteTarFromPaths(stage.fs, paths, "conda"),
                                        BaseId(meta), clock + 1)]
               /\ lay' = [lay EXCEPT !.i = @ + 1,
                                     !.counter = @ + 1,
                                     !.files_in_layers = @ \cup Keys(paths)]
               /\ clock' = clock + 1
    /\ op' = "package_layer"
    /\ UNCHANGED <<pc, outfile, exc, parsed, stage>>
    /\ UNCHANGED <<regVars, fetchVars, cliVars, toolVars>>

\* the loop has ended: the remaining files go into one layer
CatchAllLayer ==
    /\ lay.status = "running"
    /\ lay.i > stage.n \/ lay.counter > LayerCap
    /\ image' = [image EXCEPT !.layers =
                    AddLayer(image.layers,
                             WriteTarFromPaths(stage.fs,
                                 Remaining(stage.walk, lay.files_in_layers), "conda"),
                             None, clock + 1)]
    /\ lay' = [lay EXCEPT !.status = "done"]
    /\ clock' = clock + 1
    /\ op' = "catch_all_layer"
    /\ UNCHANGED <<pc, outfile, exc, parsed, stage>>
    /\ UNCHANGED <<regVars, fetchVars, cliVars, toolVars>>

LayeringNext ==
    \/ PackageLayer
    \/ CatchAllLayer

SpecLayered == LayeringInit /\ [][LayeringNext]_vars

----------------------------------------------------------------------------
(* cli.py: handle_conda_build, and conda.py: find_precs and               *)
(* build_docker_environment                                                *)

ParseImageName_NoDefault(parts) == <<parts[1], parts[Len(parts)]>>

\* parse_image_name(name) on the colon-separated parts of the name
ParseImageName(parts) == IF Len(parts) = 1 THEN <<parts[1], "latest">> ELSE parts

IsScratch_Never(base_image) == FALSE

\* base_image == "scratch"
IsScratch(base_image) == base_image = <<"scratch">>

Cleanup_Leak(tmpdir) == tmpdir

\* leaving "with tempfile.TemporaryDirectory() as tmpdir"
Cleanup(tmpdir) == IF tmpdir = "exists" THEN "removed" ELSE tmpdir

\* the branch find_precs takes, by the tool it runs
FindPrecsBranch(name, prefix, package_specs) ==
    IF name # None THEN "list --name"
    ELSE IF prefix # None THEN "list --prefix"
    ELSE IF package_specs # None THEN "create --dry-run"
    ELSE "RuntimeError"

\* the record lists the listing tool and the solver come back with
ToolPrecLists ==
    LET P(fn) == [fn |-> fn, url |-> Url(fn), md5 |-> MD5(<<1>>)] IN
    { <<>>, <<P(<<"p", "tar", "bz2">>)>>, <<P(<<"p", "tar", "bz2">>), P(<<"q", "conda">>)>> }

\* what the package server answers in a build: not found, the right
\* tarball, another tarball
BuildResponses ==
    { [status |-> 404, clen |-> 0, body |-> <<>>],
      [status |-> 200, clen |-> 1, body |-> <<1>>],
      [status |-> 200, clen |-> 0, body |-> <<2>>] }

\* the download directory before a build: empty, both tarballs there, a
\* stale p, or a stale q
BuildCaches ==
    { EmptyCache,
      [tarballs |-> (<<"p", "tar", "bz2">> :> <<1>>) @@ (<<"q", "conda">> :> <<1>>),
       infos |-> {}],
      [tarballs |-> (<<"p", "tar", "bz2">> :> <<2>>), infos |-> {}],
      [tarballs |-> (<<"q", "conda">> :> <<2>>), infos |-> {}] }

\* the base image's manifest in the registry: one or two layers of a chain
BuildManifests ==
    { [history |-> <<V1Doc("a", None, "full")>>,
       fsLayers |-> <<[blobSum |-> BlobSum(1)]>>],
      [history |-> <<V1Doc("b", "a", "full"), V1Doc("a", None, "bare")>>,
       fsLayers |-> <<[blobSum |-> BlobSum(1)], [blobSum |-> BlobSum(2)]>>] }

BuildInit ==
    /\ image = EmptyImage(None, None)
    /\ clock = 0
    /\ pc = "idle"
    /\ outfile = NoFile
    /\ exc = None
    /\ parsed = NotParsed
    /\ op = "init"
    /\ pull = PullIdle
    /\ requests = <<>>
    /\ fetch = [FetchStart(<<>>) EXCEPT !.status = "idle"]
    /\ LayeringIdle
    /\ env = EnvIdle
    /\ ToolIdle
    /\ cache \in BuildCaches
    /\ \E r \in BuildResponses : server = [u \in {Url(fn) : fn \in PackageFns} |-> r]
    /\ \E name \in {None, "myenv"}, prefix \in {None, "/opt/env"},
          package_specs \in {<<>>, <<"make">>},
          base \in {<<"scratch">>, <<BaseImageName, BaseImageTag>>},
          strategy \in {"layered", "single"}, output_image \in { <<"example">>, <<"example", "test">> } :
        /\ run = [RunStart(name, prefix, package_specs, base, strategy)
                     EXCEPT !.image = output_image]
        /\ IF IsScratch(base) THEN manifest = NoManifest ELSE manifest \in BuildManifests

\* find_precs(...): the branch's tool runs and fails (CalledProcessError, or
\* output the code cannot use), or gives the precs fetch_precs is called with
FindPrecs ==
    /\ run.phase = "start"
    /\ LET branch == FindPrecsBranch(run.name, run.prefix, run.package_specs) IN
       IF branch = "RuntimeError"
       THEN /\ run' = [run EXCEPT !.phase = "fatal", !.exc = "RuntimeError"]
            /\ UNCHANGED fetch
       ELSE \/ /\ run' = [run EXCEPT !.phase = "fatal", !.exc = "CalledProcessError",
                                     !.tools = Append(@, branch)]
               /\ UNCHANGED fetch
            \/ \E precs \in ToolPrecLists :
               /\ branch = "create --dry-run" /\ run.package_specs = <<>> => precs = <<>>
               /\ run' = [run EXCEPT !.phase = "fetch", !.tools = Append(@, branch)]
               /\ fetch' = FetchStart(precs)
    /\ op' = "find_precs"
    /\ UNCHANGED <<image, clock, pc, outfile, exc, parsed, cache, server>>
    /\ UNCHANGED <<regVars, layVars, env, toolVars>>

\* fetch_precs raised: handle_conda_build is left with the exception
FetchFailed ==
    /\ run.phase = "fetch"
    /\ fetch.status = "failed"
    /\ run' = [run EXCEPT !.phase = "fatal", !.exc = fetch.exc]
    /\ op' = "handle_conda_build"
    /\ UNCHANGED <<image, clock, pc, outfile, exc, parsed>>
    /\ UNCHANGED <<regVars, fetchVars, layVars, env, toolVars>>

BuildEnter_Lenient ==
    /\ run.phase = "fetch"
    /\ fetch.status \in {"returned", "failed"}
    /\ IF IsScratch(run.base)
       THEN /\ image' = EmptyImage(ParseImageName(run.image)[1], ParseImageName(run.image)[2])
            /\ run' = [run EXCEPT !.phase = "install", !.tmpdir = "exists"]
            /\ UNCHANGED <<pc, pull>>
       ELSE /\ pc' = "pulling"
            /\ pull' = [PullIdle EXCEPT !.step = "start"]
            /\ run' = [run EXCEPT !.phase = "pull", !.tmpdir = "exists"]
            /\ UNCHANGED image
    /\ op' = "build_docker_environment"
    /\ UNCHANGED <<clock, outfile, exc, parsed, manifest, requests>>
    /\ UNCHANGED <<fetchVars, layVars, env, toolVars>>

\* fetch_precs returned: build_docker_environment makes the staging
\* directory and starts from an empty image or from the pull of the base
BuildEnter ==
    /\ run.phase = "fetch"
    /\ fetch.status = "returned"
    /\ IF IsScratch(run.base)
       THEN /\ image' = EmptyImage(ParseImageName(run.image)[1], ParseImageName(run.image)[2])
            /\ run' = [run EXCEPT !.phase = "install", !.tmpdir = "exists"]
            /\ UNCHANGED <<pc, pull>>
       ELSE /\ pc' = "pulling"
            /\ pull' = [PullIdle EXCEPT !.step = "start"]
            /\ run' = [run EXCEPT !.phase = "pull", !.tmpdir = "exists"]
            /\ UNCHANGED image
    /\ op' = "build_docker_environment"
    /\ UNCHANGED <<clock, outfile, exc, parsed, manifest, requests>>
    /\ UNCHANGED <<fetchVars, layVars, env, toolVars>>

\* pull_image returned: the image takes the output name and tag
PullDone ==
    /\ run.phase = "pull"
    /\ pull.step = "returned"
    /\ image' = [image EXCEPT !.name = ParseImageName(run.image)[1],
                              !.tag = ParseImageName(run.image)[2]]
    /\ run' = [run EXCEPT !.phase = "install"]
    /\ op' = "build_docker_environment"
    /\ UNCHANGED <<clock, pc, outfile, exc, parsed>>
    /\ UNCHANGED <<regVars, fetchVars, layVars, env, toolVars>>

\* pull_image raised: the with block is left
PullFailed ==
    /\ run.phase = "pull"
    /\ pc = "failed"
    /\ run' = [run EXCEPT !.phase = "fatal", !.exc = exc, !.tmpdir = Cleanup(@)]
    /\ op' = "build_docker_environment"
    /\ UNCHANGED <<image, clock, pc, outfile, exc, parsed>>
    /\ UNCHANGED <<regVars, fetchVars, layVars, env, toolVars>>

\* chroot_install(tmpdir, records, ...) as one step of the build: the
\* extractor fails (check_call raises), the cleanup fails (OSError), or the
\* installer has run with some exit status, which subprocess.call drops,
\* and the staging tree is what it left (with status 0 the packages are
\* installed; another status comes from an install that failed, kind
\* "none", or from the crash after a complete install); then
\* add_conda_layers picks the strategy
ChrootInstall ==
    /\ run.phase = "install"
    /\ \/ /\ \E status \in ExitStatuses \ {0} :
                inst' = [inst EXCEPT !.step = "raised", !.exc = "CalledProcessError",
                                     !.status = status]
          /\ run' = [run EXCEPT !.phase = "fatal", !.exc = "CalledProcessError",
                                !.tmpdir = Cleanup(@)]
          /\ UNCHANGED <<stage, lay>>
       \/ /\ \E status \in ExitStatuses :
                inst' = [inst EXCEPT !.step = "raised", !.exc = "OSError",
                                     !.status = status]
          /\ run' = [run EXCEPT !.phase = "fatal", !.exc = "OSError",
                                !.tmpdir = Cleanup(@)]
          /\ UNCHANGED <<stage, lay>>
       \/ \E status \in ExitStatuses :
          \E kind \in IF status = 0 THEN PackageKinds ELSE PackageKinds \cup {"none"} :
          /\ inst' = [inst EXCEPT !.step = "returned", !.status = status]
          /\ stage' = Stage(Len(fetch.records), kind, Len(image.layers))
          /\ lay' = IF run.layering_strategy = "layered" THEN LayStart ELSE lay
          /\ run' = [run EXCEPT !.phase = "layers"]
    /\ op' = "chroot_install"
    /\ UNCHANGED <<image, clock, pc, outfile, exc, parsed>>
    /\ UNCHANGED <<regVars, fetchVars, env, repo>>

\* add_conda_package_layers raised: the with block is left
LayeringFailed ==
    /\ run.phase = "layers"
    /\ run.layering_strategy = "layered"
    /\ lay.status = "FileNotFoundError"
    /\ run' = [run EXCEPT !.phase = "fatal", !.exc = lay.status, !.tmpdir = Cleanup(@)]
    /\ op' = "build_docker_environment"
    /\ UNCHANGED <<image, clock, pc, outfile, exc, parsed>>
    /\ UNCHANGED <<regVars, fetchVars, layVars, env, toolVars>>

\* add_single_conda_layer(image, hostpath, arcpath="/", filter)
AddSingleCondaLayer ==
    /\ run.phase = "layers"
    /\ run.layering_strategy = "single"
    /\ image' = [image EXCEPT !.layers =
                    AddLayer(image.layers,
                             WriteTarFromTree(StageTree(stage.n, stage.kind), "conda"),
                             None, clock + 1)]
    /\ clock' = clock + 1
    /\ run' = [run EXCEPT !.phase = "write"]
    /\ op' = "add_single_conda_layer"
    /\ UNCHANGED <<pc, outfile, exc, parsed>>
    /\ UNCHANGED <<regVars, fetchVars, layVars, env, toolVars>>

\* the layers are on the image and image.write_file has not run yet
WritePending ==
    \/ run.phase = "write"
    \/ run.phase = "layers" /\ run.layering_strategy = "layered" /\ lay.status = "done"

\* image.write_file(output_filename), then the with block is left
BuildWrite ==
    /\ WritePending
    /\ LET w == WriteV1(image) IN
        /\ outfile' = TarFile(w.file)
        /\ exc' = w.exc
        /\ run' = [run EXCEPT !.phase = IF w.exc = None THEN "done" ELSE "fatal",
                              !.exc = w.exc, !.tmpdir = Cleanup(@)]
    /\ op' = "write_file"
    /\ UNCHANGED <<image, clock, pc, parsed>>
    /\ UNCHANGED <<regVars, fetchVars, layVars, env, toolVars>>

\* KeyboardInterrupt, at any point of the run: the call in progress is
\* left, the with block too if the run is in it, and main() returns after
\* logging.shutdown(); a write in progress leaves the members it got to
Interrupt ==
    /\ run.phase \in {"start", "fetch", "pull", "install", "layers", "write"}
    /\ run' = [run EXCEPT !.phase = "interrupted", !.exc = "KeyboardInterrupt",
                          !.tmpdir = Cleanup(@)]
    /\ fetch' = IF fetch.status = "running"
                THEN [fetch EXCEPT !.status = "failed", !.exc = "KeyboardInterrupt"]
                ELSE fetch
    /\ pc' = IF pc = "pulling" THEN "failed" ELSE pc
    /\ lay' = IF lay.status = "running" THEN [lay EXCEPT !.status = "interrupted"] ELSE lay
    /\ IF WritePending
       THEN \/ UNCHANGED outfile
            \/ \E k \in 0..(Len(WriteV1(image).file) - 1) :
                  outfile' = TarFile(SubSeq(WriteV1(image).file, 1, k))
       ELSE UNCHANGED outfile
    /\ op' = "interrupt"
    /\ UNCHANGED <<image, clock, exc, parsed, cache, server, stage>>
    /\ UNCHANGED <<regVars, env, toolVars>>

BuildNext ==
    \/ FindPrecs
    \/ FetchCached
    \/ FetchDownload
    \/ FetchReturn
    \/ FetchFailed
    \/ BuildEnter
    \/ HttpFails
    \/ GetToken
    \/ GetManifest
    \/ GetBlob
    \/ PullReturn
    \/ PullDone
    \/ PullFailed
    \/ ChrootInstall
    \/ LayeringFailed
    \/ PackageLayer
    \/ CatchAllLayer
    \/ AddSingleCondaLayer
    \/ BuildWrite
    \/ Interrupt

SpecBuild == BuildInit /\ [][BuildNext]_vars

----------------------------------------------------------------------------
(* chroot_install (conda.py): the staging root is filled, the extractor and
   the sandboxed installer run, and the root is cleaned up.  A text is the
   sequence of its tokens; "\n", "/", "." and "#" are tokens of their own. *)

MaxInst == 2

\* str.startswith
StartsWith(text, prefix) ==
    /\ Len(prefix) <= Len(text)
    /\ SubSeq(text, 1, Len(prefix)) = prefix

\* str.replace(old, new): every occurrence of old, left to right
RECURSIVE Replace(_, _, _)
Replace(text, old, new) ==
    IF Len(text) = 0 THEN <<>>
    ELSE IF StartsWith(text, old)
         THEN new \o Replace(SubSeq(text, Len(old) + 1, Len(text)), old, new)
         ELSE <<Head(text)>> \o Replace(Tail(text), old, new)

\* sep.join(parts)
RECURSIVE StrJoin(_, _)
StrJoin(sep, parts) ==
    IF Len(parts) = 0 THEN <<>>
    ELSE IF Len(parts) = 1 THEN parts[1]
    ELSE parts[1] \o sep \o StrJoin(sep, Tail(parts))

\* get_final_url: the first entry whose src the url starts with rewrites it
RECURSIVE GetFinalUrl(_, _)
GetFinalUrl(channels_remap, url) ==
    IF Len(channels_remap) = 0 THEN url
    ELSE LET src == Head(channels_remap)["src"]
             dst == Head(channels_remap)["dest"]
         IN IF StartsWith(url, src)
            THEN Replace(url, src, dst)
            ELSE GetFinalUrl(Tail(channels_remap), url)

\* write_urls: "<final url>#<md5>" per record, then "\n", joined by "\n"
WriteUrls(records, channels_remap) ==
    LET lines == [k \in 1..Len(records) |->
                    GetFinalUrl(channels_remap, records[k].url) \o <<"#", records[k].md5>>]
    IN StrJoin(<<"\n">>, Append(lines, <<"\n">>))

\* write_urls_txt: the same without the md5
WriteUrlsTxt(records, channels_remap) ==
    LET lines == [k \in 1..Len(records) |-> GetFinalUrl(channels_remap, records[k].url)]
    IN StrJoin(<<"\n">>, Append(lines, <<"\n">>))

\* os.path.join("/opt", "conda", "pkgs", record.fn)
TargRecordFn(fn) == <<"/", "opt", "/", "conda", "/", "pkgs", "/">> \o fn

\* s = "@EXPLICIT\nfile://" + "\nfile://".join(targ_record_fns) + "\n"
WriteEnvTxt(records) ==
    LET targ_record_fns == [k \in 1..Len(records) |-> TargRecordFn(records[k].fn)]
    IN <<"@EXPLICIT", "\n", "file://">>
       \o StrJoin(<<"\n", "file://">>, targ_record_fns)
       \o <<"\n">>

\* names in the staging root and in opt/conda/pkgs
RootEntry(name, type) == [name |-> name, type |-> type]

BinTools == {"bash", "mv"}

\* the packages handed to chroot_install: one on channel A, one on another
\* channel, one reached on channel A through a mirror path that repeats the
\* channel's address
ChannelA == <<"https://A", "/">>

InstPkgs ==
    { [fn |-> <<"p-1-0", ".", "tar", ".", "bz2">>, md5 |-> "55a54008ad1ba589aa210d2629c1df41",
       url |-> ChannelA \o <<"linux-64", "/", "p-1-0", ".", "tar", ".", "bz2">>],
      [fn |-> <<"q-2-0", ".", "conda">>, md5 |-> "9e688c58a5487b8eaf69c9e1005ad0bf",
       url |-> <<"https://C", "/">> \o <<"linux-64", "/", "q-2-0", ".", "conda">>],
      [fn |-> <<"m-1-0", ".", "tar", ".", "bz2">>, md5 |-> "d41d8cd98f00b204e9800998ecf8427e",
       url |-> ChannelA \o <<"mirror", "/">> \o ChannelA
               \o <<"linux-64", "/", "m-1-0", ".", "tar", ".", "bz2">>] }

RemapTables ==
    { <<>>,
      << [src |-> ChannelA, dest |-> <<"https://B", "/">>] >>,
      << [src |-> <<"https://C", "/">> \o <<"linux-64">>, dest |-> <<"https://B", "/">> \o <<"mirror">>],
         [src |-> ChannelA, dest |-> <<"https://B", "/">>] >> }

InstallInit ==
    /\ image = EmptyImage(None, None)
    /\ clock = 0
    /\ pc = "idle"
    /\ outfile = NoFile
    /\ exc = None
    /\ parsed = NotParsed
    /\ op = "init"
    /\ RegistryIdle
    /\ FetchIdle
    /\ LayeringIdle
    /\ CliIdle
    /\ repo = [RepoStart(<<>>, 200, <<>>, FALSE) EXCEPT !.step = "idle"]
    /\ \E records \in UNION { [1..n -> InstPkgs] : n \in 0..MaxInst }, channels_remap \in RemapTables :
          inst = InstStart(records, channels_remap)

\* lines 556-593: the links, env.txt, the catalog files, the copied tools.
\* os.link raises FileExistsError at the second record of the same fn.
StageRoot ==
    /\ inst.step = "start"
    /\ LET records == inst.records
           Dup(k) == \E j \in 1..(k - 1) : records[j].fn = records[k].fn
           dups == {k \in 1..Len(records) : Dup(k)}
       IN IF dups # {}
          THEN LET first == CHOOSE k \in dups : \A j \in dups : k <= j IN
               inst' = [inst EXCEPT
                          !.step = "raised", !.exc = "FileExistsError",
                          !.root = {RootEntry("opt", "dir"), RootEntry("_conda.exe", "file")},
                          !.pkgs = {records[j].fn : j \in 1..(first - 1)}]
          ELSE inst' = [inst EXCEPT
                          !.step = "staged",
                          !.root = {RootEntry("opt", "dir"), RootEntry("_conda.exe", "file"),
                                    RootEntry("root", "dir"), RootEntry("bin", "dir")},
                          !.bin = BinTools,
                          !.pkgs = {records[j].fn : j \in 1..Len(records)}
                                   \cup {<<"env", ".", "txt">>, <<"urls">>, <<"urls", ".", "txt">>},
                          !.env_txt = WriteEnvTxt(records),
                          !.urls = WriteUrls(records, inst.remap),
                          !.urls_txt = WriteUrlsTxt(records, inst.remap)]
    /\ UNCHANGED <<imgVars, regVars, fetchVars, layVars, cliVars, repo>>

\* lines 596-604: subprocess.check_call of the extractor
ExtractCondaPkgs ==
    /\ inst.step = "staged"
    /\ \E status \in ExitStatuses :
          inst' = IF status = 0
                  THEN [inst EXCEPT !.step = "extracted"]
                  ELSE [inst EXCEPT !.step = "raised", !.exc = "CalledProcessError",
                                    !.status = status]
    /\ UNCHANGED <<imgVars, regVars, fetchVars, layVars, cliVars, repo>>

\* lines 606-630: subprocess.call of the sandboxed installer; its exit status
\* is dropped.  The installer may leave a directory, a file and a symbolic
\* link to a directory at the top level of the root, and a file in bin.
SandboxInstall ==
    /\ inst.step = "extracted"
    /\ \E made \in SUBSET { RootEntry("tmp", "dir"), RootEntry(".condarc", "file"),
                              RootEntry("lib64", "symlink") }, sh \in SUBSET {"sh"}, status \in ExitStatuses :
          inst' = [inst EXCEPT !.step = "installed", !.status = status,
                               !.made = made,
                               !.root = @ \cup made, !.bin = @ \cup sh]
    /\ UNCHANGED <<imgVars, regVars, fetchVars, layVars, cliVars, repo>>

\* lines 642-648: the loop over os.scandir(new_root)
ScandirRemove_KeepDirs(root) == {e \in root : e.name = "opt" \/ e.type = "dir"}

ScandirRemove(root) == {e \in root : e.name = "opt"}

\* lines 632-648: remove the links, env.txt and the tools, rmdir bin (OSError
\* when the installer left something in it), then everything but opt
\* (shutil.rmtree raises OSError on a symbolic link; the entries scanned
\* before it are gone)
CleanupRoot ==
    /\ inst.step = "installed"
    /\ LET pkgs == inst.pkgs \ ({inst.records[j].fn : j \in 1..Len(inst.records)}
                                \cup {<<"env", ".", "txt">>})
           root == inst.root \ {RootEntry("_conda.exe", "file")}
       IN IF inst.bin \ BinTools # {}
          THEN inst' = [inst EXCEPT !.step = "raised", !.exc = "OSError",
                                    !.pkgs = pkgs, !.root = root, !.bin = @ \ BinTools]
          ELSE IF \E e \in root : e.type = "symlink"
          THEN \E gone \in SUBSET {e \in root : e.name # "opt" /\ e.type # "symlink"} :
                  inst' = [inst EXCEPT !.step = "raised", !.exc = "OSError",
                                       !.pkgs = pkgs, !.bin = {},
                                       !.root = (root \ {RootEntry("bin", "dir")}) \ gone]
          ELSE inst' = [inst EXCEPT !.step = "returned",
                                    !.pkgs = pkgs, !.bin = {},
                                    !.root = ScandirRemove(root \ {RootEntry("bin", "dir")})]
    /\ UNCHANGED <<imgVars, regVars, fetchVars, layVars, cliVars, repo>>

InstallNext ==
    \/ StageRoot
    \/ ExtractCondaPkgs
    \/ SandboxInstall
    \/ CleanupRoot

SpecInstall == InstallInit /\ [][InstallNext]_vars

----------------------------------------------------------------------------
(* The repodata fetch (conda.py): fetch_repodata_remote_request, get_repodata
   and load_repodatas, for one channel URL and the status the server
   answers with.  A JSON text is the sequence of its tokens. *)

\* lines 189-204: the raw repodata string of a 200 response; saved_fields
\* holds the url alone (no Etag, Last-Modified or Cache-Control header)
RawRepodataStr(url, json_str) ==
    LET saved_fields == <<"{", "_url", ":">> \o url \o <<"}">> IN
    IF Len(json_str) > 0 /\ json_str # <<"{", "}">>
    THEN SubSeq(saved_fields, 1, Len(saved_fields) - 1)
         \o <<",">> \o SubSeq(json_str, 2, Len(json_str))
    ELSE saved_fields

\* fetch_repodata_remote_request(url, context=context): what it raises, or
\* the string (or None) it returns
FetchRepodataRemoteRequest(url, status_code, body, allow_non_channel_urls) ==
    IF status_code \in {403, 404}
    THEN IF ~(Len(url) >= 2 /\ SubSeq(url, Len(url) - 1, Len(url)) = <<"/", "noarch">>)
         THEN [exc |-> None, raw |-> NoneText]
         ELSE IF allow_non_channel_urls
              THEN [exc |-> None, raw |-> NoneText]
              ELSE [exc |-> "HTTPError", raw |-> NoneText]
    ELSE IF status_code = 401 THEN [exc |-> "HTTPError", raw |-> NoneText]
    ELSE IF status_code = 304 THEN [exc |-> "RuntimeError", raw |-> NoneText]
    ELSE [exc |-> None, raw |-> [none |-> FALSE, text |-> RawRepodataStr(url, body)]]

\* json.loads: the keys of the object (TypeError for None is the caller's)
JsonLoads(text) == {text[i] : i \in {j \in 1..Len(text) : text[j] \in {"_url", "packages"}}}

RepodataInit ==
    /\ image = EmptyImage(None, None)
    /\ clock = 0
    /\ pc = "idle"
    /\ outfile = NoFile
    /\ exc = None
    /\ parsed = NotParsed
    /\ op = "init"
    /\ RegistryIdle
    /\ FetchIdle
    /\ LayeringIdle
    /\ CliIdle
    /\ inst = [InstStart(<<>>, <<>>) EXCEPT !.step = "idle"]
    /\ \E url \in { ChannelA \o <<"linux-64">>, ChannelA \o <<"noarch">>,
                      <<"https://C", "/", "linux-64">>, <<"https://C", "/", "noarch">> },
          status_code \in {200, 304, 401, 403, 404},
          body \in { <<"{", "}">>, <<"{", "packages", ":", "{", "}", "}">> },
          allow \in BOOLEAN,
          caller \in {"fetch_repodata_remote_request", "get_repodata", "load_repodatas"} :
          repo = [RepoStart(url, status_code, body, allow) EXCEPT !.caller = caller]

\* the call of fetch_repodata_remote_request, by its caller or by get_repodata
RemoteRequest ==
    /\ repo.step = "start"
    /\ LET r == FetchRepodataRemoteRequest(repo.url, repo.status_code, repo.body,
                                           repo.allow_non_channel_urls)
       IN repo' = [repo EXCEPT
                     !.raw = r.raw, !.exc = r.exc,
                     !.step = IF r.exc # None THEN "raised"
                              ELSE IF repo.caller = "fetch_repodata_remote_request"
                                   THEN "returned" ELSE "requested"]
    /\ UNCHANGED <<imgVars, regVars, fetchVars, layVars, cliVars, inst>>

\* get_repodata: full_repodata = json.loads(raw_repodata_str); json.loads
\* raises TypeError for None
GetRepodata ==
    /\ repo.step = "requested"
    /\ repo' = IF repo.raw.none
               THEN [repo EXCEPT !.step = "raised", !.exc = "TypeError"]
               ELSE [repo EXCEPT !.result = [none |-> FALSE, keys |-> JsonLoads(repo.raw.text)],
                                 !.step = IF repo.caller = "get_repodata"
                                          THEN "returned" ELSE "loaded"]
    /\ UNCHANGED <<imgVars, regVars, fetchVars, layVars, cliVars, inst>>

\* load_repodatas: repodatas = {url: get_repodata(url, context=context)}
LoadRepodatas ==
    /\ repo.step = "loaded"
    /\ repo' = [repo EXCEPT !.step = "returned"]
    /\ UNCHANGED <<imgVars, regVars, fetchVars, layVars, cliVars, inst>>

RepodataNext ==
    \/ RemoteRequest
    \/ GetRepodata
    \/ LoadRepodatas

SpecRepodata == RepodataInit /\ [][RepodataNext]_vars

----------------------------------------------------------------------------
(* Claims about the Image API and the v1 codec (SpecImage) *)

AppendOps == {"add_layer_path", "add_layer_paths", "add_layer_contents"}

ParentChain(layers) ==
    \A i \in 1..Len(layers) :
        layers[i].parent = IF i < Len(layers) THEN layers[i + 1].id ELSE None

\* C1: after any sequence of appends (with or without a base_id) to an image
\* that started without layers, every layer's parent is the id of the next
\* layer and the last layer has no parent.
C1_ParentChain == ParentChain(image.layers)

C1_Witness ==
    /\ Len(image.layers) = 3
    /\ image.layers[2].id = "a"
    /\ image.layers[1].id = TokenHex(3)
    /\ op \in AppendOps

\* C2: an append inserts exactly one layer, at index 0, whose parent is the
\* previous head's id (None on an empty image) and whose size is the length
\* of its content; the layers already there stay as they were, in order.
C2_AppendFrame ==
    [][op' \in AppendOps =>
        /\ Len(image'.layers) = Len(image.layers) + 1
        /\ image'.layers[1].parent =
               (IF Len(image.layers) = 0 THEN None ELSE image.layers[1].id)
        /\ image'.layers[1].size = TarLen(image'.layers[1].content)
        /\ Tail(image'.layers) = image.layers
        /\ image'.name = image.name /\ image'.tag = image.tag]_vars

C2_Witness ==
    /\ op \in AppendOps
    /\ Len(image.layers) = 2
    /\ image.layers[1].parent = image.layers[2].id
    /\ Len(image.layers[1].content) > 0

\* C7 (as claimed): an image with at least one layer that satisfies the
\* parent chain is read back by parse_v1 from what write_v1 wrote, with the
\* same name, tag and layers.
C7_RoundTrip ==
    (pc = "parsed" /\ Len(image.layers) >= 1 /\ ParentChain(image.layers))
        => (parsed.status = "ok" /\ parsed.images = <<image>>)

\* C9: the repositories entry write_v1 wrote holds exactly one name with
\* exactly one tag, whose value is the id of the head layer at the time of
\* writing, also after removals.
C9_Repositories ==
    (outfile.exists /\ exc = None) =>
        /\ Cardinality({i \in 1..Len(outfile.entries) :
                           outfile.entries[i].name = <<"", "repositories">>}) = 1
        /\ LET d == ExtractFile(outfile.entries, <<"", "repositories">>) IN
            /\ DOMAIN d = {image.name}
            /\ DOMAIN d[image.name] = {image.tag}
            /\ d[image.name][image.tag] = image.layers[1].id

C9_Witness ==
    /\ pc = "written"
    /\ exc = None
    /\ Len(image.layers) = 2
    /\ clock = 3
    /\ image.layers[1].id # image.layers[2].id

\* C10 (as claimed): writing the image "empty":"v1" without layers gives a
\* tar whose only entry is repositories, holding {"empty": {"v1": ""}}.
C10_EmptyImageTar ==
    (pc \in {"written", "parsed"} /\ image = EmptyImage("empty", "v1")) =>
        /\ exc = None
        /\ Len(outfile.entries) = 1
        /\ outfile.entries[1].name = <<"", "repositories">>
        /\ outfile.entries[1].data = ("empty" :> ("v1" :> ""))

----------------------------------------------------------------------------
(* Claims about a pulled base image (SpecRegistry) *)

\* a manifest as a registry serves it: at least one entry, each entry's parent
\* the id of the next entry, the last entry without parent, ids distinct
StockManifest(m) ==
    /\ Len(m.history) >= 1
    /\ \A i \in 1..Len(m.history) :
          Get(m.history[i], "parent", None) =
              (IF i < Len(m.history) THEN m.history[i + 1]["id"] ELSE None)
    /\ \A i, j \in 1..Len(m.history) : i # j => m.history[i]["id"] # m.history[j]["id"]

\* C8 (as claimed): a pulled base image, written with nothing appended and
\* parsed back, has the manifest's (id, parent) chain and, per layer, the
\* config of that layer's v1Compatibility entry, also when that entry has no
\* config or an empty one.
C8_PullRoundTrip ==
    (pc = "parsed" /\ pull.step = "returned" /\ StockManifest(manifest)) =>
        /\ parsed.status = "ok"
        /\ LET h  == manifest.history
               ls == parsed.images[1].layers
           IN /\ Len(ls) = Len(h)
              /\ \A i \in 1..Len(h) :
                    /\ ls[i].id = h[i]["id"]
                    /\ ls[i].parent = Get(h[i], "parent", None)
                    /\ ls[i].config = Get(h[i], "config", NullConfig)

\* C11 (as claimed): pull_image only returns images that satisfy the parent
\* chain; a manifest whose entries do not form a chain makes it fail instead.
C11_MalformedManifest == pull.step = "returned" => ParentChain(image.layers)

\* the requests pull_image sends for a manifest, in order
ExpectedRequests(m) ==
    << [kind |-> "token", arg |-> BaseImageName, auth |-> None],
       [kind |-> "manifest", arg |-> BaseImageTag, auth |-> "bearer"] >>
    \o [i \in 1..Len(m.history) |->
          [kind |-> "blob", arg |-> m.fsLayers[i].blobSum, auth |-> "bearer"]]

IsPrefix(s, t) == Len(s) <= Len(t) /\ s = SubSeq(t, 1, Len(s))

\* C12: pull_image asks for the token first, then for the manifest, then for
\* the blobs, one per manifest entry in manifest order and each with the
\* token; the image it returns has one layer per manifest entry, in manifest
\* order, each with its entry's id and its blob's decompressed bytes.
C12_PullOrder ==
    /\ IsPrefix(requests, ExpectedRequests(manifest))
    /\ pull.step = "returned" =>
          /\ requests = ExpectedRequests(manifest)
          /\ Len(image.layers) = Len(manifest.history)
          /\ \A i \in 1..Len(manifest.history) :
                /\ image.layers[i].id = manifest.history[i]["id"]
                /\ image.layers[i].content =
                      GzipDecompress(Blob(manifest.fsLayers[i].blobSum))

C12_Witness ==
    /\ pull.step = "returned"
    /\ Len(image.layers) = 2
    /\ image.layers[1].id # image.layers[2].id
    /\ Len(requests) = 4

----------------------------------------------------------------------------
(* Claims about fetch_precs (SpecFetch) *)

\* C3 (as claimed): when fetch_precs returns, every returned record's
\* tarball exists and has the record's md5.
C3_FetchedMd5 ==
    fetch.status = "returned" =>
        \A k \in 1..Len(fetch.records) :
            LET r == fetch.records[k] IN
            /\ IsFile(cache.tarballs, r.package_tarball_full_path)
            /\ MD5(cache.tarballs[r.package_tarball_full_path]) = r.md5

\* C4 (as claimed): a cached file with the wrong md5 does not block the
\* download: when the round for such a prec has run, a request for the
\* prec's url was sent in that round.
C4_StaleRedownload ==
    (/\ fetch.status = "failed"
     /\ IsFile(cache.tarballs, fetch.precs[fetch.i].fn)
     /\ Md5Files(cache.tarballs, fetch.precs[fetch.i].fn) # fetch.precs[fetch.i].md5)
        => \E g \in 1..Len(fetch.gets) :
              fetch.gets[g] = [idx |-> fetch.i, url |-> fetch.precs[fetch.i].url]

\* C14: when fetch_precs returns, it returns one record per input prec, in
\* the order of the input list, each with its prec's fn, url and md5,
\* whichever tarballs were in the cache and whichever were downloaded.
C14_RecordOrder ==
    fetch.status = "returned" =>
        /\ Len(fetch.records) = Len(fetch.precs)
        /\ \A k \in 1..Len(fetch.precs) :
              /\ fetch.records[k].fn = fetch.precs[k].fn
              /\ fetch.records[k].url = fetch.precs[k].url
              /\ fetch.records[k].md5 = fetch.precs[k].md5

\* two different precs, the first downloaded and the second found in the cache
C14_Witness ==
    /\ fetch.status = "returned"
    /\ Len(fetch.records) = 2
    /\ fetch.records[1].fn # fetch.records[2].fn
    /\ fetch.gets = << [idx |-> 1, url |-> fetch.precs[1].url] >>

----------------------------------------------------------------------------
(* Claims about _precs_from_environment (SpecEnv) *)

\* the record of a package of the environment: its explicit line joined
\* with its listing entry
EnvRecord(d) ==
    [url |-> ChannelUrl \o <<"/">> \o d.fn, md5 |-> <<d.md5>>,
     fn |-> Segments(d.fn),
     package_tarball_full_path |-> Segments(d.fn),
     extracted_package_dir |-> d.dist_name,
     dist_name |-> d.dist_name, name |-> d.name,
     base_url |-> "https://conda.anaconda.org/main"]

----------------------------------------------------------------------------
(* Claims about the layering engine, checked under SpecLayered *)

\* the layers add_conda_package_layers has put on top of the base, top first
AppendedLayers == SubSeq(image.layers, 1, Len(image.layers) - stage.base)

\* the archive paths of a layer's tar
ArcPaths(layer) == {layer.content[j].name : j \in 1..Len(layer.content)}

StagingPaths == {stage.walk[i].path : i \in 1..Len(stage.walk)}

\* C5: for any number of records the layered strategy appends at most 100
\* per-package layers plus exactly one catch-all layer: when
\* add_conda_package_layers has returned, at most 101 layers sit on top of
\* the base, and no more than 100 records got a layer of their own.
C5_LayerCap ==
    lay.status = "done" =>
        /\ Len(AppendedLayers) <= LayerCap + 1
        /\ lay.counter <= LayerCap

PairwiseDisjoint(layers) ==
    \A i, j \in 1..Len(layers) :
        i < j => ArcPaths(layers[i]) \cap ArcPaths(layers[j]) = {}

Covers(layers) == UNION {ArcPaths(layers[i]) : i \in 1..Len(layers)} = StagingPaths

\* C6: when add_conda_package_layers has returned, the archive-path sets of
\* the appended layers (per-package layers and catch-all layer) are pairwise
\* disjoint and their union is the set of all paths of the staging tree.
C6_DisjointCover ==
    lay.status = "done" => PairwiseDisjoint(AppendedLayers) /\ Covers(AppendedLayers)

----------------------------------------------------------------------------
(* Claims about a whole build, checked under SpecBuild *)

\* C13: with the base image "scratch" no request goes to the registry at any
\* point of the build (no token, manifest or blob request), the build starts
\* from an image without layers, and every layer the image ever has is one
\* the build has appended.
C13_ScratchNoRegistry ==
    (run.base = <<"scratch">> /\ run.phase # "idle") =>
        /\ requests = <<>>
        /\ pull = PullIdle
        /\ op = "build_docker_environment" => image.layers = <<>>
        /\ Len(image.layers) = clock

C13_Witness ==
    /\ run.base = <<"scratch">>
    /\ run.phase = "done"
    /\ outfile.exists
    /\ Len(image.layers) = 3

\* C16: once fetch_precs has failed on a record, the build is never entered
\* (no staging directory, no output file) and the run can only end as fatal;
\* an output file is there only after every record was fetched.
C16_FetchFatal ==
    /\ [](fetch.status = "failed" =>
            /\ ~outfile.exists
            /\ run.tmpdir = "none"
            /\ run.phase \in {"fetch", "fatal", "interrupted"})
    /\ [](outfile.exists =>
            /\ fetch.status = "returned"
            /\ Len(fetch.records) = Len(fetch.precs))
    /\ [][(fetch.status = "failed" /\ run.phase = "fetch")
             => run'.phase \in {"fatal", "interrupted"}]_vars

\* the second of two records fails to download after the first was fetched
C16_Witness ==
    /\ fetch.status = "failed"
    /\ fetch.exc \in {"IOError", "TypeError", "NameError"}
    /\ fetch.i = 2
    /\ Len(fetch.records) = 1
    /\ run.phase = "fatal"

\* C17: whenever build_docker_environment has been left (the write is done,
\* the pull, the install or the write has failed, or the run was
\* interrupted), the staging directory it made does not exist any more.
C17_TmpdirRemoved ==
    run.phase \in {"done", "fatal", "interrupted"} => run.tmpdir # "exists"

\* the run is interrupted while the image is written
C17_Witness ==
    /\ run.phase = "interrupted"
    /\ run.tmpdir = "removed"
    /\ outfile.exists

\* C18 (as claimed): after an interrupt, wherever it came, the staging
\* directory is removed and no partially written output file is left.
C18_InterruptClean ==
    run.phase = "interrupted" =>
        /\ run.tmpdir # "exists"
        /\ ~outfile.exists

\* C19 (as claimed): without a name, without a prefix and with an empty list
\* of package specs, no listing tool and no solver is run, no records are
\* produced, no output file is written, and the run fails with a
\* configuration error.
C19_NoInputs ==
    (run.phase # "idle" /\ run.name = None /\ run.prefix = None
        /\ run.package_specs = <<>>) =>
        /\ run.tools = <<>>
        /\ fetch.status = "idle"
        /\ ~outfile.exists
        /\ run.phase \in {"start", "fatal", "interrupted"}
        /\ run.phase = "fatal" => run.exc = "RuntimeError"

\* C20 (as claimed): with both a name and a prefix the run fails with a
\* configuration error: neither listing is run, no records are produced.
C20_NameAndPrefix ==
    (run.phase # "idle" /\ run.name # None /\ run.prefix # None) =>
        /\ run.tools = <<>>
        /\ fetch.status = "idle"
        /\ run.phase \in {"start", "fatal", "interrupted"}
        /\ run.phase = "fatal" => run.exc = "RuntimeError"


----------------------------------------------------------------------------
(* Claims about chroot_install and the catalog files (SpecInstall) *)

\* str.splitlines
SplitLines(text) ==
    LET nl == {i \in 1..Len(text) : text[i] = "\n"}
        ends == IF Len(text) > 0 /\ text[Len(text)] # "\n"
                THEN nl \cup {Len(text) + 1} ELSE nl
        End(k) == CHOOSE i \in ends : Cardinality({j \in ends : j < i}) = k - 1
        Start(k) == IF k = 1 THEN 1 ELSE End(k - 1) + 1
    IN [k \in 1..Cardinality(ends) |-> SubSeq(text, Start(k), End(k) - 1)]

Staged == inst.step \in {"staged", "extracted", "installed", "returned"}

\* C21: the k-th line of the urls file is the k-th record's url, with the src
\* it starts with replaced by that entry's dest and the rest of the url as it
\* was (unchanged when it starts with no src), then "#" and the md5; no step
\* of chroot_install changes a record.
C21_UrlsFile ==
    /\ [](Staged =>
            LET lines == SplitLines(inst.urls) IN
            /\ Len(lines) >= Len(inst.records)
            /\ \A k \in 1..Len(inst.records) :
                  LET url == inst.records[k].url
                      md5 == inst.records[k].md5
                      matching == {i \in 1..Len(inst.remap) :
                                     StartsWith(url, inst.remap[i]["src"])}
                  IN IF matching = {}
                     THEN lines[k] = url \o <<"#", md5>>
                     ELSE \E i \in matching :
                            lines[k] = inst.remap[i]["dest"]
                                       \o SubSeq(url, Len(inst.remap[i]["src"]) + 1, Len(url))
                                       \o <<"#", md5>>)
    /\ [][inst'.records = inst.records]_vars

\* C26: env.txt is the line "@EXPLICIT", then one line
\* "file:///opt/conda/pkgs/<fn>" per record in record order, and ends with a
\* newline; it has as many file:// lines as there are records.
C26_EnvTxt ==
    Staged =>
        LET lines == SplitLines(inst.env_txt)
            FileLine(l) == Len(l) > 0 /\ l[1] = "file://"
        IN /\ Len(lines) = 1 + Len(inst.records)
           /\ lines[1] = <<"@EXPLICIT">>
           /\ \A k \in 1..Len(inst.records) :
                 lines[k + 1] = <<"file://">> \o TargRecordFn(inst.records[k].fn)
           /\ inst.env_txt[Len(inst.env_txt)] = "\n"
           /\ Len(SelectSeq(lines, FileLine)) = Len(inst.records)

\* C27: when chroot_install returns, opt is the only entry of the staging
\* root: the installer binary, bin with its tools, root/ and whatever the
\* installer made at the top level are gone, and so are the linked tarballs
\* and env.txt under opt/conda/pkgs.
C27_OnlyOpt ==
    inst.step = "returned" =>
        /\ {e.name : e \in inst.root} = {"opt"}
        /\ inst.bin = {}
        /\ \A k \in 1..Len(inst.records) : inst.records[k].fn \notin inst.pkgs
        /\ <<"env", ".", "txt">> \notin inst.pkgs

C27_Witness ==
    /\ inst.step = "returned"
    /\ inst.made # {}
    /\ inst.status # 0
    /\ Len(inst.records) > 0


\* C22: a finished build has written the image under the output name, with
\* the tag given after the colon or "latest" when there is none, and the
\* image has the base image's layers plus the appended ones: one for the
\* single strategy, one per record and the catch-all for the layered one.
C22_NameTagLayers ==
    run.phase = "done" =>
        LET name == run.image[1]
            tag  == IF Len(run.image) = 1 THEN "latest" ELSE run.image[2]
            base == IF run.base = <<"scratch">> THEN 0 ELSE Len(manifest.history)
            appended == IF run.layering_strategy = "single" THEN 1
                        ELSE Len(fetch.records) + 1
            d == ExtractFile(outfile.entries, <<"", "repositories">>)
        IN /\ image.name = name
           /\ image.tag = tag
           /\ outfile.exists
           /\ DOMAIN d = {name}
           /\ DOMAIN d[name] = {tag}
           /\ Len(image.layers) = base + appended
           /\ Len(image.layers) >= base + 1
           /\ Cardinality({i \in 1..Len(outfile.entries) :
                              outfile.entries[i].name[2] = "json"}) = base + appended

C22_Witness ==
    /\ run.phase = "done"
    /\ run.base # <<"scratch">>
    /\ Len(manifest.history) = 2
    /\ run.image = <<"example">>
    /\ run.layering_strategy = "layered"
    /\ Len(image.layers) = 5

\* C24 (as claimed): a run whose installer ended with a nonzero exit status
\* and that was not interrupted ends with the output file written; a run
\* whose extractor ended with a nonzero exit status ends fatally and
\* without an output file.
C24_InstallExitTolerated ==
    /\ (inst.step = "returned" /\ inst.status # 0 /\ run.phase \in {"done", "fatal"})
          => (run.phase = "done" /\ outfile.exists)
    /\ (inst.step = "raised" /\ inst.exc = "CalledProcessError")
          => (run.phase \in {"fatal"} /\ ~outfile.exists)


----------------------------------------------------------------------------
(* Claims about the order of the layers (SpecLayered) *)

\* C23: at every point of the layered strategy the base image's layers are
\* the unchanged tail of the layer list, the layer of record i (its id is
\* the record's sha256) lies right above the layer of record i - 1, or above
\* the base for i = 1, and is the parent of the next one; when the strategy
\* is done the head is the catch-all layer, with a fresh id and the last
\* package layer as its parent.
C23_LayerOrder ==
    lay.status \in {"running", "done"} =>
        LET base == BaseLayers(stage.base)
            n == Len(image.layers)
            m == lay.counter
            PkgLayer(i) == image.layers[n - Len(base) - i + 1]
            below == IF Len(base) = 0 THEN None ELSE base[1].id
        IN /\ n = Len(base) + m + (IF lay.status = "done" THEN 1 ELSE 0)
           /\ SubSeq(image.layers, n - Len(base) + 1, n) = base
           /\ \A i \in 1..m :
                 /\ PkgLayer(i).id = Sha256s[i]
                 /\ PkgLayer(i).parent = IF i = 1 THEN below ELSE PkgLayer(i - 1).id
           /\ lay.status = "done" =>
                 /\ m = IF stage.n <= LayerCap THEN stage.n ELSE LayerCap + 1
                 /\ image.layers[1].id = TokenHex(clock)
                 /\ image.layers[1].parent = IF m = 0 THEN below ELSE PkgLayer(m).id

C23_Witness ==
    /\ lay.status = "done"
    /\ stage.base = 1
    /\ stage.n = 3
    /\ Len(image.layers) = 5
    /\ image.layers[2].parent = image.layers[3].id


----------------------------------------------------------------------------
(* Claims about the repodata fetch (SpecRepodata) *)

RepoEnded == repo.step \in {"returned", "raised"}

\* C25 (as claimed): a 403 or 404 for a URL that does not end in /noarch
\* gives an empty result and no exception, whichever of the three functions
\* the caller entered by; for a URL ending in /noarch the call raises
\* unless allow_non_channel_urls is set, and then it gives an empty result
\* too.
C25_NotFoundIsEmpty ==
    (RepoEnded /\ repo.status_code \in {403, 404}) =>
        LET noarch == repo.url[Len(repo.url)] = "noarch"
            empty  == /\ repo.step = "returned"
                      /\ repo.exc = None
                      /\ repo.raw.none
                      /\ repo.result.none \/ repo.result.keys = {}
        IN IF noarch /\ ~repo.allow_non_channel_urls
           THEN repo.step = "raised" /\ repo.exc = "HTTPError"
           ELSE empty


----------------------------------------------------------------------------
(* Claims about download (SpecFetch) *)

\* C28 (as claimed): a download whose response advertises a Content-Length
\* other than the number of bytes streamed makes fetch_precs fail in that
\* round, with the length-mismatch error (the RuntimeError whose message is
\* "Downloaded bytes did not match Content-Length"); a 200 response without
\* Content-Length never fails the round.
C28_LengthMismatch ==
    \A g \in 1..Len(fetch.gets) :
        LET resp == server[fetch.gets[g].url]
            failedHere == fetch.status = "failed" /\ fetch.i = fetch.gets[g].idx
        IN /\ (resp.status = 200 /\ resp.clen # 0 /\ Len(resp.body) # resp.clen)
                => (failedHere /\ fetch.exc = "RuntimeError")
           /\ (resp.status = 200 /\ resp.clen = 0) => ~failedHere


----------------------------------------------------------------------------
(* Claims about parse_v1 and layer ids *)

\* C29 (as claimed): parse_v1 comes to an end on every tar it is given: the
\* walk from the head ends at a layer without parent or with an error, and
\* never goes round a chain that refers back to a layer already read.
C29_ParseTerminates ==
    op = "from_file" => parsed.status \in {"ok", "KeyError"}


\* C30 (as claimed): whatever appends were made, with ids minted or given
\* as base_id, the ids of the image's layers are pairwise distinct, no
\* layer is its own parent, and the written tar has as many layer
\* directories as the image has layers.
C30_DistinctIds ==
    /\ \A i, j \in 1..Len(image.layers) :
          i # j => image.layers[i].id # image.layers[j].id
    /\ \A i \in 1..Len(image.layers) : image.layers[i].parent # image.layers[i].id
    /\ (pc = "written" /\ exc = None) =>
          Cardinality({outfile.entries[k].name[1] :
                         k \in {e \in 1..Len(outfile.entries) :
                                  outfile.entries[e].name[2] = "json"}})
            = Len(image.layers)

====
